---- MODULE Spec2Model ----
(***************************************************************************)
(* MultiDict (multicollections/__init__.py) and the MutableMultiMapping    *)
(* defaults it inherits (multicollections/abc.py).                         *)
(*                                                                         *)
(* The container is the pair (_items, _key_indices):                       *)
(*   _items        the Entry Log, a Python list of (key, value) tuples;    *)
(*                 a slot may transiently hold None, the removal marker.   *)
(*   _key_indices  the Position Index, a dict key -> list of 0-based       *)
(*                 positions into _items.                                  *)
(* A tuple (k, v) is the TLA+ tuple <<k, v>>; None in a log slot is the    *)
(* empty tuple, so "item is not None" is item # NoneItem, which a pair     *)
(* whose value is None still satisfies.  Positions keep Python's 0-based   *)
(* numbering: position p is slot p + 1 of the TLA+ sequence.               *)
(* A dict is a function whose domain is its key set.                       *)
(*                                                                         *)
(* Every public call is one action.  It records the call (call), the       *)
(* container as it was when the call began (pre) and what the call         *)
(* returned or raised (ret).  adds is the sequence of add() calls made on  *)
(* a container created empty, for as long as add() is all that was called; *)
(* filled tells whether the container has ever held an entry.  iter is an  *)
(* iterator taken from the container that the caller is stepping through,  *)
(* with the list object it walks.  view is a keys(), values() or items()   *)
(* view the caller holds on the container.                                 *)
(***************************************************************************)
EXTENDS Integers, Sequences, FiniteSets, TLC

VARIABLES _items, _key_indices, call, pre, ret, adds, filled, iter, view

vars == <<_items, _key_indices, call, pre, ret, adds, filled, iter, view>>

----------------------------------------------------------------------------
(* Bounds of the model *)

\* longest Entry Log explored
MaxLen == 3
\* most pairs passed to one bulk call (positional pairs plus keyword pairs)
MaxOther == 2
\* most keyword arguments passed to one call
MaxKwargs == 1

\* keys and values handed to the container; one of the values is None
None == "None"
Keys == {"a", "b"}
Values == {"x", None}

\* abc.py: _NO_DEFAULT = _NoDefault(), the "no default given" sentinel
_NO_DEFAULT == "_NO_DEFAULT"
Defaults == Values \cup {_NO_DEFAULT}

\* the removal marker written into a log slot (Python None in place of a tuple)
NoneItem == <<>>

Pairs == {<<k, v>> : k \in Keys, v \in Values}

SeqsUpTo(S, n) == UNION {[1..m -> S] : m \in 0..n}

\* a keyword dict: pairs with pairwise distinct keys, in declaration order
IsKwargs(kw) == \A i, j \in 1..Len(kw) : kw[i][1] = kw[j][1] => i = j

KwargsSet == {kw \in SeqsUpTo(Pairs, MaxKwargs) : IsKwargs(kw)}

\* the (other, kwargs) arguments of a bulk call
BulkArgs == {a \in SeqsUpTo(Pairs, MaxOther) \X KwargsSet :
               Len(a[1]) + Len(a[2]) <= MaxOther}

\* an element of other that is not a key/value pair: a 1-tuple
BadItem == <<"bad">>

\* an other that fails partway: pairs followed by an element that is not a
\* pair (what follows the first such element is never read)
BadOthers == {o \o <<BadItem>> : o \in SeqsUpTo(Pairs, MaxOther - 1)}

----------------------------------------------------------------------------
(* Python values and containers *)

\* what a call hands back: a value, a list, a tuple, or a raised KeyError
Value(v) == <<"value", v>>
List(s) == <<"list", s>>
Tuple(k, v) == <<"tuple", k, v>>
KeyError(k) == <<"KeyError", k>>

IsRaise(r) == r[1] = "KeyError"

\* "for key, value in items" met an element that is not a pair
ValueError == <<"ValueError", "not enough values to unpack">>

\* l[0] on an empty list
IndexError == <<"IndexError", "list index out of range">>

\* a raised TypeError
TypeError(msg) == <<"TypeError", msg>>

\* "key, value = e" unpacks
IsPair(e) == Len(e) = 2

\* a container state together with the outcome of the call that produced it
R(its, ki, r) == [items |-> its, key_indices |-> ki, ret |-> r]

EmptyDict == [k \in {} |-> <<>>]

\* d[k] = v
DictSet(d, k, v) == [x \in DOMAIN d \cup {k} |-> IF x = k THEN v ELSE d[x]]

\* del d[k]
DictDel(d, k) == [x \in DOMAIN d \ {k} |-> d[x]]

\* l[i] = v for the 0-based position i
ListSet(l, i, v) == [l EXCEPT ![i + 1] = v]

\* l.pop(): the list without its last element
ListPop(l) == SubSeq(l, 1, Len(l) - 1)

\* l.remove(x): the list without the first element equal to x
RECURSIVE ListRemove(_, _)
ListRemove(l, x) ==
  IF l = <<>> THEN <<>>
  ELSE IF Head(l) = x THEN Tail(l)
  ELSE <<Head(l)>> \o ListRemove(Tail(l), x)

\* the filter taking a pair whose value is None for a removal marker
FilterNone_falsy(its) ==
  SelectSeq(its, LAMBDA item : item # NoneItem /\ item[2] # None)

\* [item for item in items if item is not None]
FilterNone(its) == SelectSeq(its, LAMBDA item : item # NoneItem)

----------------------------------------------------------------------------
(* MultiDict: multicollections/__init__.py *)

\* MultiDict._add_item
_add_item(its, ki, key, value) ==
  LET index == Len(its)
      ki1 == IF key \notin DOMAIN ki THEN DictSet(ki, key, <<>>) ELSE ki
  IN  R(Append(its, <<key, value>>),
        DictSet(ki1, key, Append(ki1[key], index)),
        Value(None))

\* _getall returning the key's first value only
_getall_first(its, ki, key) ==
  LET indices == IF key \in DOMAIN ki THEN ki[key] ELSE <<>>
  IN  IF indices = <<>> THEN <<>> ELSE <<its[indices[1] + 1][2]>>

\* MultiDict._getall: [self._items[i][1] for i in self._key_indices.get(key, [])]
_getall(its, ki, key) ==
  LET indices == IF key \in DOMAIN ki THEN ki[key] ELSE <<>>
  IN  [j \in 1..Len(indices) |-> its[indices[j] + 1][2]]

\* the loop of _rebuild_indices; i is the 0-based index enumerate() yields
RECURSIVE _rebuild_loop(_, _, _)
_rebuild_loop(its, i, ki) ==
  IF i >= Len(its) THEN ki
  ELSE LET key == its[i + 1][1]
           ki1 == IF key \notin DOMAIN ki THEN DictSet(ki, key, <<>>) ELSE ki
       IN  _rebuild_loop(its, i + 1, DictSet(ki1, key, Append(ki1[key], i)))

\* MultiDict._rebuild_indices
_rebuild_indices(its) == _rebuild_loop(its, 0, EmptyDict)

\* for idx in indices: self._items[idx] = None
RECURSIVE MarkNone(_, _)
MarkNone(its, indices) ==
  IF indices = <<>> THEN its
  ELSE MarkNone(ListSet(its, Head(indices), NoneItem), Tail(indices))

\* __setitem__ replacing the first occurrence and leaving the later ones
__setitem___first_only(its, ki, key, value) ==
  IF key \in DOMAIN ki
  THEN R(ListSet(its, ki[key][1], <<key, value>>), ki, Value(None))
  ELSE _add_item(its, ki, key, value)

\* __setitem__ appending whether or not the key is there
__setitem___appends(its, ki, key, value) == _add_item(its, ki, key, value)

\* MultiDict.__setitem__
__setitem__(its, ki, key, value) ==
  IF key \in DOMAIN ki
  THEN LET indices == ki[key]
           first_index == indices[1]
           its1 == ListSet(its, first_index, <<key, value>>)
       IN  IF Len(indices) > 1
           THEN LET its2 == FilterNone(MarkNone(its1, Tail(indices)))
                IN  R(its2, _rebuild_indices(its2), Value(None))
           ELSE R(its1, ki, Value(None))
  ELSE _add_item(its, ki, key, value)

\* add with the replace semantics of __setitem__
add_replaces(its, ki, key, value) == __setitem__(its, ki, key, value)

\* MultiDict.add
add(its, ki, key, value) == _add_item(its, ki, key, value)

\* _popone whose rebuild path drops the key's first position and leaves the
\* other positions unshifted
_popone_unshifted(its, ki, key) ==
  IF key \notin DOMAIN ki THEN R(its, ki, KeyError(key))
  ELSE LET indices == ki[key]
           first_index == indices[1]
           value == its[first_index + 1][2]
           indices1 == ListRemove(indices, first_index)
           ki1 == IF indices1 = <<>> THEN DictDel(ki, key)
                                     ELSE DictSet(ki, key, indices1)
       IN  IF first_index = Len(its) - 1
           THEN R(ListPop(its), ki1, Value(value))
           ELSE R(FilterNone(ListSet(its, first_index, NoneItem)), ki1,
                  Value(value))

\* _popone removing the key's last occurrence instead of its first
_popone_last(its, ki, key) ==
  IF key \notin DOMAIN ki THEN R(its, ki, KeyError(key))
  ELSE LET indices == ki[key]
           last_index == indices[Len(indices)]
           value == its[last_index + 1][2]
           its1 == FilterNone(ListSet(its, last_index, NoneItem))
       IN  R(its1, _rebuild_indices(its1), Value(value))

\* _popone looking the key up in a way that creates its position list, as
\* a defaultdict would, before it raises
_popone_creates_list(its, ki, key) ==
  IF key \notin DOMAIN ki THEN R(its, DictSet(ki, key, <<>>), KeyError(key))
  ELSE LET indices == ki[key]
           first_index == indices[1]
           value == its[first_index + 1][2]
       IN  IF first_index = Len(its) - 1
           THEN LET indices1 == ListRemove(indices, first_index)
                IN  R(ListPop(its),
                      IF indices1 = <<>> THEN DictDel(ki, key)
                                         ELSE DictSet(ki, key, indices1),
                      Value(value))
           ELSE LET its1 == FilterNone(ListSet(its, first_index, NoneItem))
                IN  R(its1, _rebuild_indices(its1), Value(value))

\* _popone taking the last slot off the log and leaving the emptied position
\* list in the index
_popone_keeps_key(its, ki, key) ==
  IF key \notin DOMAIN ki THEN R(its, ki, KeyError(key))
  ELSE LET first_index == ki[key][1]
           value == its[first_index + 1][2]
       IN  IF first_index = Len(its) - 1
           THEN R(ListPop(its),
                  DictSet(ki, key, ListRemove(ki[key], first_index)),
                  Value(value))
           ELSE LET its1 == FilterNone(ListSet(its, first_index, NoneItem))
                IN  R(its1, _rebuild_indices(its1), Value(value))

\* MultiDict._popone
_popone(its, ki, key) ==
  IF key \notin DOMAIN ki THEN R(its, ki, KeyError(key))
  ELSE LET indices == ki[key]
           first_index == indices[1]
           value == its[first_index + 1][2]
       IN  IF first_index = Len(its) - 1
           THEN LET indices1 == ListRemove(indices, first_index)
                IN  R(ListPop(its),
                      IF indices1 = <<>> THEN DictDel(ki, key)
                                         ELSE DictSet(ki, key, indices1),
                      Value(value))
           ELSE LET its1 == FilterNone(ListSet(its, first_index, NoneItem))
                IN  R(its1, _rebuild_indices(its1), Value(value))

\* popall removing only the key's first occurrence
popall_first_only(its, ki, key, default0) ==
  LET r == _popone(its, ki, key)
  IN  IF IsRaise(r.ret)
      THEN IF default0 = None \/ default0 = _NO_DEFAULT THEN r
           ELSE R(its, ki, Value(default0))
      ELSE R(r.items, r.key_indices, List(<<r.ret[2]>>))

\* popall answering an absent key with an empty list
popall_silent(its, ki, key, default0) ==
  LET indices_to_remove == IF key \in DOMAIN ki THEN ki[key] ELSE <<>>
      values == [j \in 1..Len(indices_to_remove) |->
                   its[indices_to_remove[j] + 1][2]]
      its1 == FilterNone(MarkNone(its, indices_to_remove))
  IN  R(its1, _rebuild_indices(its1), List(values))

\* MultiDict.popall
popall(its, ki, key, default0) ==
  LET default == IF default0 = None THEN _NO_DEFAULT ELSE default0
  IN  IF key \notin DOMAIN ki
      THEN IF default = _NO_DEFAULT THEN R(its, ki, KeyError(key))
                                    ELSE R(its, ki, Value(default))
      ELSE LET indices_to_remove == ki[key]
               values == [j \in 1..Len(indices_to_remove) |->
                            its[indices_to_remove[j] + 1][2]]
               its1 == FilterNone(MarkNone(its, indices_to_remove))
           IN  R(its1, _rebuild_indices(its1), List(values))

\* __delitem__ going through _popone, which removes one occurrence
__delitem___popone(its, ki, key) ==
  LET r == _popone(its, ki, key)
  IN  IF IsRaise(r.ret) THEN r ELSE R(r.items, r.key_indices, Value(None))

\* MultiDict.__delitem__: self.popall(key), the value dropped
__delitem__(its, ki, key) ==
  LET r == popall(its, ki, key, None)
  IN  IF IsRaise(r.ret) THEN r ELSE R(r.items, r.key_indices, Value(None))

\* MultiDict.__len__
__len__(its) == Len(its)

\* MultiDict.__iter__: (k for k, _ in self._items)
__iter__(its) == [i \in 1..Len(its) |-> its[i][1]]

\* clear emptying the log and leaving the index
clear_items_only(its, ki) == R(<<>>, ki, Value(None))

\* MultiDict.clear
clear(its, ki) == R(<<>>, EmptyDict, Value(None))

\* popitem leaving a key with an empty position list in the index
popitem_keeps_key(its, ki) ==
  IF its = <<>> THEN R(its, ki, KeyError("popitem(): dictionary is empty"))
  ELSE LET key == its[Len(its)][1]
           value == its[Len(its)][2]
           its1 == ListPop(its)
       IN  R(its1, DictSet(ki, key, ListRemove(ki[key], Len(its1))),
             Tuple(key, value))

\* popitem without the test for an empty container: list.pop() raises
popitem_no_check(its, ki) ==
  IF its = <<>> THEN R(its, ki, IndexError)
  ELSE LET key == its[Len(its)][1]
           value == its[Len(its)][2]
           its1 == ListPop(its)
           indices == ListRemove(ki[key], Len(its1))
       IN  R(its1,
             IF indices = <<>> THEN DictDel(ki, key)
                               ELSE DictSet(ki, key, indices),
             Tuple(key, value))

\* popitem taking the first entry of the log, as next(iter(self)) finds it
popitem_first(its, ki) ==
  IF its = <<>> THEN R(its, ki, KeyError("popitem(): dictionary is empty"))
  ELSE LET its1 == Tail(its)
       IN  R(its1, _rebuild_indices(its1), Tuple(its[1][1], its[1][2]))

\* MultiDict.popitem
popitem(its, ki) ==
  IF its = <<>> THEN R(its, ki, KeyError("popitem(): dictionary is empty"))
  ELSE LET key == its[Len(its)][1]
           value == its[Len(its)][2]
           its1 == ListPop(its)
           last_index == Len(its1)
           indices == ListRemove(ki[key], last_index)
       IN  R(its1,
             IF indices = <<>> THEN DictDel(ki, key)
                               ELSE DictSet(ki, key, indices),
             Tuple(key, value))

\* the loop of update without "existing_keys.remove(key)": every pair of a
\* key that was present replaces again
RECURSIVE update_loop_no_remove(_, _, _, _, _)
update_loop_no_remove(its, ki, existing_keys, keys_to_rebuild, pairs) ==
  IF pairs = <<>>
  THEN [items |-> its, key_indices |-> ki, keys_to_rebuild |-> keys_to_rebuild,
        raised |-> FALSE]
  ELSE LET key == Head(pairs)[1]
           value == Head(pairs)[2]
       IN  IF key \in existing_keys
           THEN LET indices == ki[key]
                    first_index == indices[1]
                    its1 == ListSet(its, first_index, <<key, value>>)
                IN  IF Len(indices) > 1
                    THEN update_loop_no_remove(
                           MarkNone(its1, Tail(indices)), ki, existing_keys,
                           keys_to_rebuild \cup {key}, Tail(pairs))
                    ELSE update_loop_no_remove(its1, ki, existing_keys,
                                               keys_to_rebuild, Tail(pairs))
           ELSE LET r == _add_item(its, ki, key, value)
                IN  update_loop_no_remove(r.items, r.key_indices,
                                          existing_keys, keys_to_rebuild,
                                          Tail(pairs))

\* the for loop of MultiDict.update over the chained pairs
RECURSIVE update_loop(_, _, _, _, _)
update_loop(its, ki, existing_keys, keys_to_rebuild, pairs) ==
  IF pairs = <<>>
  THEN [items |-> its, key_indices |-> ki, keys_to_rebuild |-> keys_to_rebuild,
        raised |-> FALSE]
  ELSE IF ~IsPair(Head(pairs))
  THEN [items |-> its, key_indices |-> ki, keys_to_rebuild |-> keys_to_rebuild,
        raised |-> TRUE]
  ELSE LET key == Head(pairs)[1]
           value == Head(pairs)[2]
       IN  IF key \in existing_keys
           THEN LET indices == ki[key]
                    first_index == indices[1]
                    its1 == ListSet(its, first_index, <<key, value>>)
                IN  IF Len(indices) > 1
                    THEN update_loop(MarkNone(its1, Tail(indices)), ki,
                                     existing_keys \ {key},
                                     keys_to_rebuild \cup {key}, Tail(pairs))
                    ELSE update_loop(its1, ki, existing_keys \ {key},
                                     keys_to_rebuild, Tail(pairs))
           ELSE LET r == _add_item(its, ki, key, value)
                IN  update_loop(r.items, r.key_indices, existing_keys,
                                keys_to_rebuild, Tail(pairs))

\* update compacting the log but keeping the index it had while the
\* markers were in place
update_no_rebuild(its, ki, other, kwargs) ==
  LET existing_keys == DOMAIN ki
      l == update_loop(its, ki, existing_keys, {}, other \o kwargs)
  IN  IF l.raised THEN R(l.items, l.key_indices, ValueError)
      ELSE IF l.keys_to_rebuild # {}
      THEN R(FilterNone(l.items), l.key_indices, Value(None))
      ELSE R(l.items, l.key_indices, Value(None))

\* MultiDict.update; other is the sequence of pairs that other.items() or
\* iterating other yields, kwargs the keyword pairs chained after it
update(its, ki, other, kwargs) ==
  LET existing_keys == DOMAIN ki
      l == update_loop(its, ki, existing_keys, {}, other \o kwargs)
  IN  IF l.raised THEN R(l.items, l.key_indices, ValueError)
      ELSE IF l.keys_to_rebuild # {}
      THEN LET its1 == FilterNone(l.items)
           IN  R(its1, _rebuild_indices(its1), Value(None))
      ELSE R(l.items, l.key_indices, Value(None))

\* the for loops of __init__ storing each pair with self[key] = value
RECURSIVE init_loop_setitem(_, _, _)
init_loop_setitem(its, ki, pairs) ==
  IF pairs = <<>> THEN R(its, ki, Value(None))
  ELSE LET r == __setitem__(its, ki, Head(pairs)[1], Head(pairs)[2])
       IN  init_loop_setitem(r.items, r.key_indices, Tail(pairs))

\* the for loops of MultiDict.__init__
RECURSIVE init_loop(_, _, _)
init_loop(its, ki, pairs) ==
  IF pairs = <<>> THEN R(its, ki, Value(None))
  ELSE LET r == _add_item(its, ki, Head(pairs)[1], Head(pairs)[2])
       IN  init_loop(r.items, r.key_indices, Tail(pairs))

\* MultiDict.__init__
__init__(iterable, kwargs) ==
  LET r == init_loop(<<>>, EmptyDict, iterable)
  IN  init_loop(r.items, r.key_indices, kwargs)

----------------------------------------------------------------------------
(* MultiMapping and MutableMultiMapping defaults: multicollections/abc.py *)

\* _with_default_handling handing back the default without looking whether
\* one was given
_with_default_handling_swallow(r, default) ==
  IF IsRaise(r.ret) THEN R(r.items, r.key_indices, Value(default)) ELSE r

\* _with_default_handling(operation, default); r is what operation() did
_with_default_handling(r, default) ==
  IF IsRaise(r.ret)
  THEN IF default = _NO_DEFAULT THEN r
       ELSE R(r.items, r.key_indices, Value(default))
  ELSE r

\* getall handing back the empty list of an absent key instead of raising
getall_empty_list(its, ki, key, default) ==
  LET got == _getall(its, ki, key)
  IN  IF got = <<>> /\ default # _NO_DEFAULT
      THEN R(its, ki, Value(default))
      ELSE R(its, ki, List(got))

\* MultiMapping.getall
getall(its, ki, key, default) ==
  LET got == _getall(its, ki, key)
  IN  IF got = <<>>
      THEN IF default = _NO_DEFAULT THEN R(its, ki, KeyError(key))
                                    ELSE R(its, ki, Value(default))
      ELSE R(its, ki, List(got))

\* MultiMapping.getone: lambda: self.getall(key)[0]
getone(its, ki, key, default) ==
  LET g == getall(its, ki, key, _NO_DEFAULT)
  IN  _with_default_handling(
        IF IsRaise(g.ret) THEN g
        ELSE IF g.ret[2] = <<>> THEN R(its, ki, IndexError)
        ELSE R(its, ki, Value(g.ret[2][1])),
        default)

\* the for loop of ItemsView.__iter__ pairing every key with its first value
RECURSIVE items_loop_first(_, _, _, _)
items_loop_first(its, ki, keys, counts) ==
  IF keys = <<>> THEN <<>>
  ELSE <<<<Head(keys), getall(its, ki, Head(keys), _NO_DEFAULT).ret[2][1]>>>>
         \o items_loop_first(its, ki, Tail(keys), counts)

\* the for loop of ItemsView.__iter__; keys is what iter(self._mapping) still
\* has to yield, counts the defaultdict(int)
RECURSIVE items_loop(_, _, _, _)
items_loop(its, ki, keys, counts) ==
  IF keys = <<>> THEN <<>>
  ELSE LET k == Head(keys)
           c == IF k \in DOMAIN counts THEN counts[k] ELSE 0
       IN  <<<<k, getall(its, ki, k, _NO_DEFAULT).ret[2][c + 1]>>>>
             \o items_loop(its, ki, Tail(keys), DictSet(counts, k, c + 1))

\* list(md.items()): ItemsView.__iter__ run to its end with no call in between
items(its, ki) == items_loop(its, ki, __iter__(its), EmptyDict)

\* MultiMapping.__getitem__
__getitem__(its, ki, key) == getone(its, ki, key, _NO_DEFAULT)

\* key in self: Mapping.__contains__ tries self[key] and catches KeyError
__contains__(its, ki, key) == ~IsRaise(__getitem__(its, ki, key).ret)

\* MutableMultiMapping.popone
popone(its, ki, key, default) ==
  _with_default_handling(_popone(its, ki, key), default)

\* MutableMultiMapping.pop
pop(its, ki, key, default) == popone(its, ki, key, default)

\* the loop of extend skipping the pairs whose key is already present
RECURSIVE extend_loop_skip_present(_, _, _)
extend_loop_skip_present(its, ki, pairs) ==
  IF pairs = <<>> THEN R(its, ki, Value(None))
  ELSE LET key == Head(pairs)[1]
           r == IF key \notin DOMAIN ki
                THEN add(its, ki, key, Head(pairs)[2])
                ELSE R(its, ki, Value(None))
       IN  extend_loop_skip_present(r.items, r.key_indices, Tail(pairs))

\* the for loop of MutableMultiMapping.extend
RECURSIVE extend_loop(_, _, _)
extend_loop(its, ki, pairs) ==
  IF pairs = <<>> THEN R(its, ki, Value(None))
  ELSE IF ~IsPair(Head(pairs)) THEN R(its, ki, ValueError)
  ELSE LET r == add(its, ki, Head(pairs)[1], Head(pairs)[2])
       IN  extend_loop(r.items, r.key_indices, Tail(pairs))

\* MutableMultiMapping.extend
extend(its, ki, other, kwargs) == extend_loop(its, ki, other \o kwargs)

\* the loop of merge testing presence against the container as it grows
RECURSIVE merge_loop_recheck(_, _, _, _)
merge_loop_recheck(its, ki, existing_keys, pairs) ==
  IF pairs = <<>> THEN R(its, ki, Value(None))
  ELSE LET key == Head(pairs)[1]
           r == IF key \notin DOMAIN ki
                THEN add(its, ki, key, Head(pairs)[2])
                ELSE R(its, ki, Value(None))
       IN  merge_loop_recheck(r.items, r.key_indices, existing_keys,
                              Tail(pairs))

\* the for loop of MutableMultiMapping.merge
RECURSIVE merge_loop(_, _, _, _)
merge_loop(its, ki, existing_keys, pairs) ==
  IF pairs = <<>> THEN R(its, ki, Value(None))
  ELSE IF ~IsPair(Head(pairs)) THEN R(its, ki, ValueError)
  ELSE LET key == Head(pairs)[1]
           r == IF key \notin existing_keys
                THEN add(its, ki, key, Head(pairs)[2])
                ELSE R(its, ki, Value(None))
       IN  merge_loop(r.items, r.key_indices, existing_keys, Tail(pairs))

\* MutableMultiMapping.merge; set(self.keys()) collects what __iter__ yields
merge(its, ki, other, kwargs) ==
  LET existing_keys == {__iter__(its)[i] : i \in 1..Len(its)}
  IN  merge_loop(its, ki, existing_keys, other \o kwargs)

\* setdefault storing through self[key] = ... also when the key is there
setdefault_collapses(its, ki, key, default) ==
  LET g == __getitem__(its, ki, key)
      v == IF IsRaise(g.ret) THEN default ELSE g.ret[2]
      r == __setitem__(its, ki, key, v)
  IN  R(r.items, r.key_indices, Value(v))

\* setdefault, inherited from collections.abc.MutableMapping:
\*   try: return self[key]
\*   except KeyError: self[key] = default
\*   return default
setdefault(its, ki, key, default) ==
  LET g == __getitem__(its, ki, key)
  IN  IF IsRaise(g.ret)
      THEN LET r == __setitem__(its, ki, key, default)
           IN  R(r.items, r.key_indices, Value(default))
      ELSE g

\* iter(md.keys()) run to its end: KeysView.__iter__ is iter(self._mapping)
keys(its, ki) == __iter__(its)

\* iter(md.values()) run to its end: (v for _, v in self._mapping.items())
values(its, ki) ==
  LET its1 == items(its, ki)
  IN  [i \in 1..Len(its1) |-> its1[i][2]]

----------------------------------------------------------------------------
(* Text: repr() and the reading back of what it printed.  A text is the     *)
(* sequence of its tokens; the blank after each comma is left out.          *)

\* a str result
Str(s) == <<"str", s>>

\* repr() of a key or value: None prints as None, a str between quotes
repr_object(o) == IF o = None THEN "None" ELSE "'" \o o \o "'"

\* repr() of a tuple (k, v)
repr_tuple(t) == <<"(", repr_object(t[1]), ",", repr_object(t[2]), ")">>

\* the elements of a list's repr(), separated by commas
RECURSIVE repr_elements(_)
repr_elements(l) ==
  IF l = <<>> THEN <<>>
  ELSE IF Len(l) = 1 THEN repr_tuple(l[1])
  ELSE repr_tuple(l[1]) \o <<",">> \o repr_elements(Tail(l))

\* repr() of a list of tuples
repr_list(l) == <<"[">> \o repr_elements(l) \o <<"]">>

\* the entries that are the first of their key
FirstOfEachKey(its) ==
  SelectSeq(its, LAMBDA e :
    \E p \in 1..Len(its) :
      /\ its[p] = e
      /\ \A q \in 1..(p - 1) : its[q][1] # e[1])

\* __repr__ printing one entry per key, as the repr of a dict would
__repr___one_per_key(its) ==
  <<"MultiDict", "(">> \o repr_list(FirstOfEachKey(its)) \o <<")">>

\* MultiDict.__repr__: f"{self.__class__.__name__}({list(self._items)!r})"
__repr__(its) == <<"MultiDict", "(">> \o repr_list(its) \o <<")">>

\* the object a literal token denotes
eval_literal(tok) ==
  IF tok = "None" THEN None
  ELSE CHOOSE o \in (Keys \cup Values) \ {None} : repr_object(o) = tok

\* the tuples denoted by the tokens that follow the "[" of a list display
RECURSIVE eval_elements(_)
eval_elements(toks) ==
  IF toks = <<>> \/ Head(toks) = "]" THEN <<>>
  ELSE IF Head(toks) = "," THEN eval_elements(Tail(toks))
  ELSE <<<<eval_literal(toks[2]), eval_literal(toks[4])>>>>
         \o eval_elements(SubSeq(toks, 6, Len(toks)))

\* eval() of a text of the form MultiDict([...]): the list display is built
\* and handed to MultiDict.__init__
eval(toks) == __init__(eval_elements(SubSeq(toks, 4, Len(toks))), <<>>)

----------------------------------------------------------------------------
(* Equality: collections.abc.Mapping.__eq__, which MultiDict inherits *)

True == "True"
False == "False"
Bool(b) == IF b THEN True ELSE False

\* the types of object a MultiDict is compared with; the object is given by
\* the pairs it holds and is never the MultiDict itself
OperandTypes == {"MultiDict", "dict", "list"}

\* dict(pairs): the last value of each key
dict(pairs) ==
  [k \in {pairs[i][1] : i \in 1..Len(pairs)} |->
     pairs[CHOOSE i \in 1..Len(pairs) :
             /\ pairs[i][1] = k
             /\ \A j \in (i + 1)..Len(pairs) : pairs[j][1] # k][2]]

\* other.items() of a Mapping operand
operand_items(type, pairs) ==
  IF type = "MultiDict"
  THEN LET o == __init__(pairs, <<>>) IN items(o.items, o.key_indices)
  ELSE pairs

\* md == other.  Mapping.__eq__:
\*   if not isinstance(other, Mapping): return NotImplemented
\*   return dict(self.items()) == dict(other.items())
\* after NotImplemented from both sides Python compares identities, and the
\* operand is another object
__eq__(its, ki, type, pairs) ==
  IF type \notin {"MultiDict", "dict"} THEN R(its, ki, Value(False))
  ELSE R(its, ki,
         Value(Bool(dict(items(its, ki)) = dict(operand_items(type, pairs)))))

----------------------------------------------------------------------------
(* ListMultiDict, the list-scan reference of tests/test_multicollections.py. *)
(* Its only state is the list _items.                                        *)

\* state and outcome of a ListMultiDict method
LR(its, r) == [items |-> its, ret |-> r]

\* ListMultiDict.__init__
ListMultiDict___init__(iterable, kwargs) ==
  LR(iterable \o kwargs, Value(None))

\* the methods MutableMultiMapping and its bases declare abstract and do not
\* define themselves
AbstractMethods ==
  {"_getall", "__iter__", "__len__", "__setitem__", "add", "_popone"}

\* the methods the body of class ListMultiDict defines
ListMultiDictMethods ==
  {"__init__", "__getitem__", "__setitem__", "add", "__delitem__", "values",
   "items", "__iter__", "__len__"}

\* ListMultiDict(iterable, **kwargs): a class that leaves an abstract method
\* undefined cannot be instantiated
ListMultiDict(iterable, kwargs) ==
  IF AbstractMethods \ ListMultiDictMethods # {}
  THEN LR(<<>>, TypeError("Can't instantiate abstract class ListMultiDict"))
  ELSE ListMultiDict___init__(iterable, kwargs)

\* ListMultiDict.__getitem__
ListMultiDict___getitem__(its, key) ==
  IF \E i \in 1..Len(its) : its[i][1] = key
  THEN LR(its, Value(its[CHOOSE i \in 1..Len(its) :
                           /\ its[i][1] = key
                           /\ \A j \in 1..(i - 1) : its[j][1] # key][2]))
  ELSE LR(its, KeyError(key))

\* ListMultiDict.__setitem__
ListMultiDict___setitem__(its, key, value) ==
  IF \E i \in 1..Len(its) : its[i][1] = key
  THEN LET replaced == CHOOSE i \in 1..Len(its) :
                         /\ its[i][1] = key
                         /\ \A j \in 1..(i - 1) : its[j][1] # key
           its1 == [its EXCEPT ![replaced] = <<key, value>>]
           keep == {i \in 1..Len(its1) : i = replaced \/ its1[i][1] # key}
           F[i \in 0..Len(its1)] ==
             IF i = 0 THEN <<>>
             ELSE IF i \in keep THEN Append(F[i - 1], its1[i]) ELSE F[i - 1]
       IN  LR(F[Len(its1)], Value(None))
  ELSE LR(Append(its, <<key, value>>), Value(None))

\* ListMultiDict.add
ListMultiDict_add(its, key, value) ==
  LR(Append(its, <<key, value>>), Value(None))

\* ListMultiDict.__delitem__
ListMultiDict___delitem__(its, key) ==
  LET new_items == SelectSeq(its, LAMBDA e : e[1] # key)
  IN  IF Len(new_items) = Len(its) THEN LR(its, KeyError(key))
      ELSE LR(new_items, Value(None))

\* ListMultiDict.values
ListMultiDict_values(its) == [i \in 1..Len(its) |-> its[i][2]]

\* ListMultiDict.items
ListMultiDict_items(its) == its

\* ListMultiDict.__iter__
ListMultiDict___iter__(its) == [i \in 1..Len(its) |-> its[i][1]]

\* ListMultiDict.__len__
ListMultiDict___len__(its) == Len(its)

----------------------------------------------------------------------------
(* Iterators.  (k for k, _ in self._items) walks a list object: the one      *)
(* self._items names when the generator is created.  append, pop, clear and  *)
(* item assignment change that object in place; "self._items = [...]" makes  *)
(* self._items name a new list and leaves the old one, None markers          *)
(* included, to the iterators that walk it.                                  *)

\* raised by next() on an iterator that is exhausted
StopIteration == <<"StopIteration">>

\* what a call does to the list object that self._items named when it began:
\* rebound tells whether self._items was made to name a new list, and list is
\* then the old object as the call left it
Rebound(l) == [rebound |-> TRUE, list |-> l]
InPlace == [rebound |-> FALSE, list |-> <<>>]

\* __setitem__: lines 80-84
__setitem___list(its, ki, key, value) ==
  IF key \in DOMAIN ki /\ Len(ki[key]) > 1
  THEN Rebound(MarkNone(ListSet(its, ki[key][1], <<key, value>>),
                        Tail(ki[key])))
  ELSE InPlace

\* _popone: lines 112-121
_popone_list(its, ki, key) ==
  IF key \in DOMAIN ki /\ ki[key][1] # Len(its) - 1
  THEN Rebound(ListSet(its, ki[key][1], NoneItem))
  ELSE InPlace

\* popall: lines 170-175
popall_list(its, ki, key) ==
  IF key \in DOMAIN ki THEN Rebound(MarkNone(its, ki[key])) ELSE InPlace

\* update: lines 247-249
update_list(its, ki, other, kwargs) ==
  LET l == update_loop(its, ki, DOMAIN ki, {}, other \o kwargs)
  IN  IF ~l.raised /\ l.keys_to_rebuild # {} THEN Rebound(l.items)
      ELSE InPlace

\* no iterator has been taken
NoIter ==
  [kind |-> "", status |-> "none", shared |-> TRUE, list |-> <<>>, pos |-> 0,
   counts |-> EmptyDict, expect |-> <<>>, exact |-> TRUE, mutated |-> FALSE]

\* the kinds of iterator: iter(md) or iter(md.keys()), iter(md.items()),
\* iter(md.values())
IterKinds == {"keys", "items", "values"}

\* a new iterator.  MultiDict.__iter__ builds its generator expression, and
\* with it the list iterator, at once; ItemsView.__iter__ and
\* ValuesView.__iter__ are generator functions, which run nothing before the
\* first next().
\* While shared, the iterator walks the list self._items names, from position
\* pos; after that list was replaced, list is what the iterator has yet to
\* walk of the old one.
\* For an iterator over the keys, expect is what is left to yield of the key
\* sequence the log had when the iteration began, and exact tells whether
\* the keys yielded so far were those, in that order.
new_iter(kind, its) ==
  [kind |-> kind, status |-> IF kind = "keys" THEN "running" ELSE "created",
   shared |-> TRUE, list |-> <<>>, pos |-> 0, counts |-> EmptyDict,
   expect |-> IF kind = "keys" THEN __iter__(its) ELSE <<>>,
   exact |-> TRUE, mutated |-> FALSE]

\* the iterator after a call on the container: changed tells whether the call
\* changed the log, m what it did to the list object
after_call(it, m, changed) ==
  IF it.status = "created" THEN [it EXCEPT !.mutated = @ \/ changed]
  ELSE IF it.status = "running"
  THEN IF it.shared /\ m.rebound
       THEN [it EXCEPT !.mutated = @ \/ changed,
                       !.shared = FALSE,
                       !.list = SubSeq(m.list, it.pos + 1, Len(m.list)),
                       !.pos = 0]
       ELSE [it EXCEPT !.mutated = @ \/ changed]
  ELSE it

\* the list object the iterator walks, as it is now
iter_list(it, its) == IF it.shared THEN its ELSE it.list

\* one step of (k for k, _ in self._items) over the list l from position
\* pos: the list iterator ends at the end of the list; the unpacking of a
\* None marker raises TypeError
__iter___next(l, pos) ==
  IF pos >= Len(l) THEN StopIteration
  ELSE IF l[pos + 1] = NoneItem
  THEN TypeError("cannot unpack non-iterable NoneType object")
  ELSE Value(l[pos + 1][1])

\* one step of ItemsView.__iter__ once the key iteration has yielded k:
\*   yield (k, self._mapping.getall(k)[counts[k]])
ItemsView___iter___yield(its, ki, k, counts) ==
  LET g == getall(its, ki, k, _NO_DEFAULT)
      c == IF k \in DOMAIN counts THEN counts[k] ELSE 0
  IN  IF IsRaise(g.ret) THEN g.ret
      ELSE IF c >= Len(g.ret[2]) THEN IndexError
      ELSE Tuple(k, g.ret[2][c + 1])

\* the iterator moved past the element it has just read
advance(it) ==
  IF it.shared THEN [it EXCEPT !.pos = @ + 1]
  ELSE [it EXCEPT !.list = Tail(@)]

\* an iterator that has ended or raised walks nothing any more
finished(it, status) ==
  [it EXCEPT !.status = status, !.shared = TRUE, !.list = <<>>, !.pos = 0,
             !.counts = EmptyDict]

\* next(it): the iterator after the step and what the step yields or raises
next(it, its, ki) ==
  LET it0 == IF it.status = "created"
             THEN [it EXCEPT !.status = "running", !.shared = TRUE]
             ELSE it
      k == __iter___next(iter_list(it0, its), it0.pos)
      out == IF k[1] # "value" \/ it0.kind = "keys" THEN k
             ELSE LET e == ItemsView___iter___yield(its, ki, k[2], it0.counts)
                  IN  IF e[1] = "tuple" /\ it0.kind = "values"
                      THEN Value(e[3]) ELSE e
      matches == /\ it0.exact
                 /\ it0.expect # <<>>
                 /\ Head(it0.expect) = out[2]
  IN  [ret |-> out,
       iter |->
         IF out = StopIteration THEN finished(it0, "ended")
         ELSE IF out[1] \in {"TypeError", "KeyError", "IndexError"}
         THEN finished(it0, "raised")
         ELSE IF it0.kind = "keys"
         THEN [advance(it0) EXCEPT
                 !.exact = matches,
                 !.expect = IF matches THEN Tail(@) ELSE <<>>]
         ELSE [advance(it0) EXCEPT
                 !.counts = DictSet(@, k[2],
                              (IF k[2] \in DOMAIN @ THEN @[k[2]] ELSE 0)
                                + 1)]]

----------------------------------------------------------------------------
(* The MutableMultiMapping defaults that MultiDict overrides, run on a      *)
(* MultiDict: multicollections/abc.py                                       *)

\* the for loop of MutableMultiMapping.update
RECURSIVE MutableMultiMapping_update_loop(_, _, _, _)
MutableMultiMapping_update_loop(its, ki, existing_keys, pairs) ==
  IF pairs = <<>> THEN R(its, ki, Value(None))
  ELSE IF ~IsPair(Head(pairs)) THEN R(its, ki, ValueError)
  ELSE LET key == Head(pairs)[1]
           value == Head(pairs)[2]
       IN  IF key \in existing_keys
           THEN LET r == __setitem__(its, ki, key, value)
                IN  MutableMultiMapping_update_loop(
                      r.items, r.key_indices, existing_keys \ {key},
                      Tail(pairs))
           ELSE LET r == add(its, ki, key, value)
                IN  MutableMultiMapping_update_loop(
                      r.items, r.key_indices, existing_keys, Tail(pairs))

\* MutableMultiMapping.update: existing_keys = set(self.keys())
MutableMultiMapping_update(its, ki, other, kwargs) ==
  LET ks == keys(its, ki)
      existing_keys == {ks[i] : i \in DOMAIN ks}
  IN  MutableMultiMapping_update_loop(its, ki, existing_keys, other \o kwargs)

\* [self.popone(key) for _ in range(n)]
RECURSIVE MutableMultiMapping_popall_loop(_, _, _, _)
MutableMultiMapping_popall_loop(its, ki, key, n) ==
  IF n = 0 THEN R(its, ki, List(<<>>))
  ELSE LET p == popone(its, ki, key, _NO_DEFAULT)
       IN  IF IsRaise(p.ret) THEN p
           ELSE LET rest == MutableMultiMapping_popall_loop(
                              p.items, p.key_indices, key, n - 1)
                IN  IF IsRaise(rest.ret) THEN rest
                    ELSE R(rest.items, rest.key_indices,
                           List(<<p.ret[2]>> \o rest.ret[2]))

\* MutableMultiMapping.popall: range(len(self.getall(key))) is evaluated
\* before the first popone
MutableMultiMapping_popall(its, ki, key, default) ==
  LET g == getall(its, ki, key, _NO_DEFAULT)
  IN  _with_default_handling(
        IF IsRaise(g.ret) THEN g
        ELSE MutableMultiMapping_popall_loop(its, ki, key, Len(g.ret[2])),
        default)

\* MutableMultiMapping.popitem: key = next(iter(self)), value =
\* self.popone(key); next() on the iterator of an empty container raises
\* StopIteration, which nothing catches
MutableMultiMapping_popitem(its, ki) ==
  LET n == __iter___next(its, 0)
  IN  IF n = StopIteration THEN R(its, ki, StopIteration)
      ELSE LET key == n[2]
               p == popone(its, ki, key, _NO_DEFAULT)
           IN  IF IsRaise(p.ret) THEN p
               ELSE R(p.items, p.key_indices, Tuple(key, p.ret[2]))

----------------------------------------------------------------------------
(* Views: multicollections/abc.py.  A view holds the mapping it was taken   *)
(* from, not a copy of its contents.                                        *)

\* key in md.keys(): KeysView.__contains__
KeysView___contains__(its, ki, key) == __contains__(its, ki, key)

\* ItemsView.__contains__ looking at the first value of the key only
ItemsView___contains___first(its, ki, item) ==
  LET g == getall(its, ki, item[1], _NO_DEFAULT)
  IN  IF IsRaise(g.ret) THEN FALSE ELSE g.ret[2][1] = item[2]

\* (key, value) in md.items(): ItemsView.__contains__
ItemsView___contains__(its, ki, item) ==
  LET g == getall(its, ki, item[1], _NO_DEFAULT)
  IN  IF IsRaise(g.ret) THEN FALSE
      ELSE \E i \in DOMAIN g.ret[2] : g.ret[2][i] = item[2]

\* value in md.values(): ValuesView.__contains__ is "value in iter(self)"
ValuesView___contains__(its, ki, value) ==
  LET vs == values(its, ki)
  IN  \E i \in DOMAIN vs : vs[i] = value

\* no view is held
NoView == [kind |-> "", taken_len |-> 0]

\* md.keys(), md.values(), md.items(): MultiMappingView.__init__ keeps the
\* mapping.  taken_len is history: the length the container had when the
\* view was taken.
MultiMappingView___init__(kind, its) ==
  [kind |-> kind, taken_len |-> Len(its)]

\* a view that yields no more entries than the container had when the view
\* was taken
MultiMappingView___iter___bounded(v, its, ki) ==
  LET now == IF v.kind = "keys" THEN keys(its, ki)
             ELSE IF v.kind = "values" THEN values(its, ki)
             ELSE items(its, ki)
  IN  SubSeq(now, 1, IF v.taken_len < Len(now) THEN v.taken_len ELSE Len(now))

\* list(view): KeysView.__iter__, ValuesView.__iter__ or ItemsView.__iter__
\* run to its end on the mapping as it is when the iteration begins
MultiMappingView___iter__(v, its, ki) ==
  IF v.kind = "keys" THEN keys(its, ki)
  ELSE IF v.kind = "values" THEN values(its, ki)
  ELSE items(its, ki)

\* len(view): MappingView.__len__ is len(self._mapping)
MultiMappingView___len__(v, its) == __len__(its)

----------------------------------------------------------------------------
(* The withdefault decorator: multicollections/abc.py *)

\* the wrapper withdefault returns, handing back the default even though
\* base_method returned
withdefault_prefers_default(r, default) ==
  IF default = _NO_DEFAULT THEN r
  ELSE R(r.items, r.key_indices, Value(default))

\* withdefault(base_method)(self, key, default): r is what
\* base_method(self, key) did
withdefault(r, default) ==
  IF IsRaise(r.ret)
  THEN IF default = _NO_DEFAULT THEN r
       ELSE R(r.items, r.key_indices, Value(default))
  ELSE r

----------------------------------------------------------------------------
(* The state machine: one action per public call *)

NoKey == ""
NoValue == ""

\* the record of a call; arguments the call does not take are left blank
Call(op, key, value, default, other, kwargs) ==
  [op |-> op, key |-> key, value |-> value, default |-> default,
   other |-> other, kwargs |-> kwargs]

\* the container as it stands
Container == [items |-> _items, key_indices |-> _key_indices]

\* no call is being observed: the last result has been taken
NoCall == Call("", NoKey, NoValue, _NO_DEFAULT, <<>>, <<>>)

Idle == call = NoCall

\* some call other than add() has been made
NotOnlyAdds == [only |-> FALSE, pairs |-> <<>>]

\* MultiDict(iterable, **kwargs)
Init ==
  \E a \in BulkArgs :
    LET r == __init__(a[1], a[2])
    IN  /\ _items = r.items
        /\ _key_indices = r.key_indices
        /\ ret = r.ret
        /\ call = Call("__init__", NoKey, NoValue, _NO_DEFAULT, a[1], a[2])
        /\ pre = [items |-> <<>>, key_indices |-> EmptyDict]
        /\ adds = [only |-> a[1] = <<>> /\ a[2] = <<>>, pairs |-> <<>>]
        /\ filled = (r.items # <<>>)
        /\ iter = NoIter
        /\ view = NoView

\* md.getone(key) and md.getone(key, default)
GetOne ==
  /\ Idle
  /\ \E key \in Keys, default \in Defaults :
    LET r == getone(_items, _key_indices, key, default)
    IN  /\ Len(r.items) <= MaxLen
        /\ _items' = r.items
        /\ _key_indices' = r.key_indices
        /\ ret' = r.ret
        /\ call' = Call("getone", key, NoValue, default, <<>>, <<>>)
        /\ pre' = Container
        /\ adds' = NotOnlyAdds
        /\ filled' = (filled \/ r.items # <<>>)
        /\ UNCHANGED iter
        /\ UNCHANGED view

\* md.getall(key) and md.getall(key, default)
GetAll ==
  /\ Idle
  /\ \E key \in Keys, default \in Defaults :
    LET r == getall(_items, _key_indices, key, default)
    IN  /\ Len(r.items) <= MaxLen
        /\ _items' = r.items
        /\ _key_indices' = r.key_indices
        /\ ret' = r.ret
        /\ call' = Call("getall", key, NoValue, default, <<>>, <<>>)
        /\ pre' = Container
        /\ adds' = NotOnlyAdds
        /\ filled' = (filled \/ r.items # <<>>)
        /\ UNCHANGED iter
        /\ UNCHANGED view

\* md[key]
GetItem ==
  /\ Idle
  /\ \E key \in Keys :
    LET r == __getitem__(_items, _key_indices, key)
    IN  /\ Len(r.items) <= MaxLen
        /\ _items' = r.items
        /\ _key_indices' = r.key_indices
        /\ ret' = r.ret
        /\ call' = Call("__getitem__", key, NoValue, _NO_DEFAULT, <<>>, <<>>)
        /\ pre' = Container
        /\ adds' = NotOnlyAdds
        /\ filled' = (filled \/ r.items # <<>>)
        /\ UNCHANGED iter
        /\ UNCHANGED view

\* md.add(key, value)
Add ==
  /\ Idle
  /\ \E key \in Keys, value \in Values :
    LET r == add(_items, _key_indices, key, value)
    IN  /\ Len(r.items) <= MaxLen
        /\ _items' = r.items
        /\ _key_indices' = r.key_indices
        /\ ret' = r.ret
        /\ call' = Call("add", key, value, _NO_DEFAULT, <<>>, <<>>)
        /\ pre' = Container
        /\ adds' = IF adds.only
                    THEN [adds EXCEPT !.pairs = Append(@, <<key, value>>)]
                    ELSE adds
        /\ filled' = (filled \/ r.items # <<>>)
        /\ UNCHANGED iter
        /\ UNCHANGED view

\* md[key] = value
SetItem ==
  /\ Idle
  /\ \E key \in Keys, value \in Values :
    LET r == __setitem__(_items, _key_indices, key, value)
    IN  /\ Len(r.items) <= MaxLen
        /\ _items' = r.items
        /\ _key_indices' = r.key_indices
        /\ ret' = r.ret
        /\ call' = Call("__setitem__", key, value, _NO_DEFAULT, <<>>, <<>>)
        /\ pre' = Container
        /\ adds' = NotOnlyAdds
        /\ filled' = (filled \/ r.items # <<>>)
        /\ iter' = after_call(iter, __setitem___list(_items, _key_indices, key, value),
                      r.items # _items)
        /\ UNCHANGED view

\* md.setdefault(key, default); an omitted default is None
SetDefault ==
  /\ Idle
  /\ \E key \in Keys, default \in Values :
    LET r == setdefault(_items, _key_indices, key, default)
    IN  /\ Len(r.items) <= MaxLen
        /\ _items' = r.items
        /\ _key_indices' = r.key_indices
        /\ ret' = r.ret
        /\ call' = Call("setdefault", key, NoValue, default, <<>>, <<>>)
        /\ pre' = Container
        /\ adds' = NotOnlyAdds
        /\ filled' = (filled \/ r.items # <<>>)
        /\ UNCHANGED iter
        /\ UNCHANGED view

\* md.popone(key) and md.popone(key, default)
PopOne ==
  /\ Idle
  /\ \E key \in Keys, default \in Defaults :
    LET r == popone(_items, _key_indices, key, default)
    IN  /\ Len(r.items) <= MaxLen
        /\ _items' = r.items
        /\ _key_indices' = r.key_indices
        /\ ret' = r.ret
        /\ call' = Call("popone", key, NoValue, default, <<>>, <<>>)
        /\ pre' = Container
        /\ adds' = NotOnlyAdds
        /\ filled' = (filled \/ r.items # <<>>)
        /\ iter' = after_call(iter, _popone_list(_items, _key_indices, key),
                      r.items # _items)
        /\ UNCHANGED view

\* md.pop(key) and md.pop(key, default)
Pop ==
  /\ Idle
  /\ \E key \in Keys, default \in Defaults :
    LET r == pop(_items, _key_indices, key, default)
    IN  /\ Len(r.items) <= MaxLen
        /\ _items' = r.items
        /\ _key_indices' = r.key_indices
        /\ ret' = r.ret
        /\ call' = Call("pop", key, NoValue, default, <<>>, <<>>)
        /\ pre' = Container
        /\ adds' = NotOnlyAdds
        /\ filled' = (filled \/ r.items # <<>>)
        /\ iter' = after_call(iter, _popone_list(_items, _key_indices, key),
                      r.items # _items)
        /\ UNCHANGED view

\* md.popall(key) and md.popall(key, default); the parameter is declared
\* "default=None", so an omitted default reaches the body as None
PopAll ==
  /\ Idle
  /\ \E key \in Keys, default \in Defaults :
    LET r == popall(_items, _key_indices, key,
                    IF default = _NO_DEFAULT THEN None ELSE default)
    IN  /\ Len(r.items) <= MaxLen
        /\ _items' = r.items
        /\ _key_indices' = r.key_indices
        /\ ret' = r.ret
        /\ call' = Call("popall", key, NoValue, default, <<>>, <<>>)
        /\ pre' = Container
        /\ adds' = NotOnlyAdds
        /\ filled' = (filled \/ r.items # <<>>)
        /\ iter' = after_call(iter, popall_list(_items, _key_indices, key),
                      r.items # _items)
        /\ UNCHANGED view

\* del md[key]
DelItem ==
  /\ Idle
  /\ \E key \in Keys :
    LET r == __delitem__(_items, _key_indices, key)
    IN  /\ Len(r.items) <= MaxLen
        /\ _items' = r.items
        /\ _key_indices' = r.key_indices
        /\ ret' = r.ret
        /\ call' = Call("__delitem__", key, NoValue, _NO_DEFAULT, <<>>, <<>>)
        /\ pre' = Container
        /\ adds' = NotOnlyAdds
        /\ filled' = (filled \/ r.items # <<>>)
        /\ iter' = after_call(iter, popall_list(_items, _key_indices, key),
                      r.items # _items)
        /\ UNCHANGED view

\* md.popitem()
PopItem ==
  LET r == popitem(_items, _key_indices)
  IN  /\ Idle
      /\ Len(r.items) <= MaxLen
      /\ _items' = r.items
      /\ _key_indices' = r.key_indices
      /\ ret' = r.ret
      /\ call' = Call("popitem", NoKey, NoValue, _NO_DEFAULT, <<>>, <<>>)
      /\ pre' = Container
      /\ adds' = NotOnlyAdds
      /\ filled' = (filled \/ r.items # <<>>)
      /\ UNCHANGED iter
      /\ UNCHANGED view

\* md.clear()
Clear ==
  LET r == clear(_items, _key_indices)
  IN  /\ Idle
      /\ Len(r.items) <= MaxLen
      /\ _items' = r.items
      /\ _key_indices' = r.key_indices
      /\ ret' = r.ret
      /\ call' = Call("clear", NoKey, NoValue, _NO_DEFAULT, <<>>, <<>>)
      /\ pre' = Container
      /\ adds' = NotOnlyAdds
      /\ filled' = (filled \/ r.items # <<>>)
      /\ UNCHANGED iter
      /\ UNCHANGED view

\* md.extend(other, **kwargs)
Extend ==
  /\ Idle
  /\ \E a \in BulkArgs :
    LET r == extend(_items, _key_indices, a[1], a[2])
    IN  /\ Len(r.items) <= MaxLen
        /\ _items' = r.items
        /\ _key_indices' = r.key_indices
        /\ ret' = r.ret
        /\ call' = Call("extend", NoKey, NoValue, _NO_DEFAULT, a[1], a[2])
        /\ pre' = Container
        /\ adds' = NotOnlyAdds
        /\ filled' = (filled \/ r.items # <<>>)
        /\ UNCHANGED iter
        /\ UNCHANGED view

\* md.merge(other, **kwargs)
Merge ==
  /\ Idle
  /\ \E a \in BulkArgs :
    LET r == merge(_items, _key_indices, a[1], a[2])
    IN  /\ Len(r.items) <= MaxLen
        /\ _items' = r.items
        /\ _key_indices' = r.key_indices
        /\ ret' = r.ret
        /\ call' = Call("merge", NoKey, NoValue, _NO_DEFAULT, a[1], a[2])
        /\ pre' = Container
        /\ adds' = NotOnlyAdds
        /\ filled' = (filled \/ r.items # <<>>)
        /\ UNCHANGED iter
        /\ UNCHANGED view

\* md.update(other, **kwargs)
Update ==
  /\ Idle
  /\ \E a \in BulkArgs :
    LET r == update(_items, _key_indices, a[1], a[2])
    IN  /\ Len(r.items) <= MaxLen
        /\ _items' = r.items
        /\ _key_indices' = r.key_indices
        /\ ret' = r.ret
        /\ call' = Call("update", NoKey, NoValue, _NO_DEFAULT, a[1], a[2])
        /\ pre' = Container
        /\ adds' = NotOnlyAdds
        /\ filled' = (filled \/ r.items # <<>>)
        /\ iter' = after_call(iter, update_list(_items, _key_indices, a[1], a[2]),
                      r.items # _items)
        /\ UNCHANGED view

\* list(md.keys()), list(md)
ListKeys ==
  LET r == R(_items, _key_indices, List(keys(_items, _key_indices)))
  IN  /\ Idle
      /\ Len(r.items) <= MaxLen
      /\ _items' = r.items
      /\ _key_indices' = r.key_indices
      /\ ret' = r.ret
      /\ call' = Call("keys", NoKey, NoValue, _NO_DEFAULT, <<>>, <<>>)
      /\ pre' = Container
      /\ adds' = NotOnlyAdds
      /\ filled' = (filled \/ r.items # <<>>)
      /\ UNCHANGED iter
      /\ UNCHANGED view

\* list(md.values())
ListValues ==
  LET r == R(_items, _key_indices, List(values(_items, _key_indices)))
  IN  /\ Idle
      /\ Len(r.items) <= MaxLen
      /\ _items' = r.items
      /\ _key_indices' = r.key_indices
      /\ ret' = r.ret
      /\ call' = Call("values", NoKey, NoValue, _NO_DEFAULT, <<>>, <<>>)
      /\ pre' = Container
      /\ adds' = NotOnlyAdds
      /\ filled' = (filled \/ r.items # <<>>)
      /\ UNCHANGED iter
      /\ UNCHANGED view

\* list(md.items())
ListItems ==
  LET r == R(_items, _key_indices, List(items(_items, _key_indices)))
  IN  /\ Idle
      /\ Len(r.items) <= MaxLen
      /\ _items' = r.items
      /\ _key_indices' = r.key_indices
      /\ ret' = r.ret
      /\ call' = Call("items", NoKey, NoValue, _NO_DEFAULT, <<>>, <<>>)
      /\ pre' = Container
      /\ adds' = NotOnlyAdds
      /\ filled' = (filled \/ r.items # <<>>)
      /\ UNCHANGED iter
      /\ UNCHANGED view

\* len(md)
LenCall ==
  LET r == R(_items, _key_indices, Value(__len__(_items)))
  IN  /\ Idle
      /\ Len(r.items) <= MaxLen
      /\ _items' = r.items
      /\ _key_indices' = r.key_indices
      /\ ret' = r.ret
      /\ call' = Call("__len__", NoKey, NoValue, _NO_DEFAULT, <<>>, <<>>)
      /\ pre' = Container
      /\ adds' = NotOnlyAdds
      /\ filled' = (filled \/ r.items # <<>>)
      /\ UNCHANGED iter
      /\ UNCHANGED view

\* repr(md)
Repr ==
  LET r == R(_items, _key_indices, Str(__repr__(_items)))
  IN  /\ Idle
      /\ Len(r.items) <= MaxLen
      /\ _items' = r.items
      /\ _key_indices' = r.key_indices
      /\ ret' = r.ret
      /\ call' = Call("__repr__", NoKey, NoValue, _NO_DEFAULT, <<>>, <<>>)
      /\ pre' = Container
      /\ adds' = NotOnlyAdds
      /\ filled' = (filled \/ r.items # <<>>)
      /\ UNCHANGED iter
      /\ UNCHANGED view

\* md == other; the call records the type of other in place of a value
Eq ==
  /\ Idle
  /\ \E type \in OperandTypes, o \in SeqsUpTo(Pairs, MaxOther) :
    LET r == __eq__(_items, _key_indices, type, o)
    IN  /\ type = "dict" => IsKwargs(o)
        /\ Len(r.items) <= MaxLen
        /\ _items' = r.items
        /\ _key_indices' = r.key_indices
        /\ ret' = r.ret
        /\ call' = Call("__eq__", NoKey, type, _NO_DEFAULT, o, <<>>)
        /\ pre' = Container
        /\ adds' = NotOnlyAdds
        /\ filled' = (filled \/ r.items # <<>>)
        /\ UNCHANGED iter
        /\ UNCHANGED view

\* the caller takes the result of the call; the container itself is untouched,
\* and an iterator that has ended or raised is dropped.
\* A ValueError out of a bulk call is not caught: the run ends there.
Return ==
  /\ ~Idle
  /\ ret[1] # "ValueError"
  /\ call' = NoCall
  /\ pre' = [items |-> <<>>, key_indices |-> EmptyDict]
  /\ ret' = Value(None)
  /\ iter' = IF iter.status \in {"ended", "raised"} THEN NoIter ELSE iter
  /\ UNCHANGED <<_items, _key_indices, adds, filled>>
  /\ UNCHANGED view

Next ==
  \/ Add
  \/ SetItem
  \/ SetDefault
  \/ PopOne
  \/ Pop
  \/ PopAll
  \/ DelItem
  \/ PopItem
  \/ Clear
  \/ Extend
  \/ Merge
  \/ Update
  \/ GetOne
  \/ GetAll
  \/ GetItem
  \/ ListKeys
  \/ ListValues
  \/ ListItems
  \/ LenCall
  \/ Repr
  \/ Return

Spec == Init /\ [][Next]_vars

\* md == other, between calls that change the container
NextEq ==
  \/ Eq
  \/ Add
  \/ SetItem
  \/ PopOne
  \/ Return

SpecEq == Init /\ [][NextEq]_vars

\* md.extend(other) where other holds an element that is not a pair
ExtendBad ==
  /\ Idle
  /\ \E o \in BadOthers :
    LET r == extend(_items, _key_indices, o, <<>>)
    IN  /\ Len(r.items) <= MaxLen
        /\ _items' = r.items
        /\ _key_indices' = r.key_indices
        /\ ret' = r.ret
        /\ call' = Call("extend", NoKey, NoValue, _NO_DEFAULT, o, <<>>)
        /\ pre' = Container
        /\ adds' = NotOnlyAdds
        /\ filled' = (filled \/ r.items # <<>>)
        /\ UNCHANGED iter
        /\ UNCHANGED view

\* md.merge(other) where other holds an element that is not a pair
MergeBad ==
  /\ Idle
  /\ \E o \in BadOthers :
    LET r == merge(_items, _key_indices, o, <<>>)
    IN  /\ Len(r.items) <= MaxLen
        /\ _items' = r.items
        /\ _key_indices' = r.key_indices
        /\ ret' = r.ret
        /\ call' = Call("merge", NoKey, NoValue, _NO_DEFAULT, o, <<>>)
        /\ pre' = Container
        /\ adds' = NotOnlyAdds
        /\ filled' = (filled \/ r.items # <<>>)
        /\ UNCHANGED iter
        /\ UNCHANGED view

\* md.update(other) where other holds an element that is not a pair
UpdateBad ==
  /\ Idle
  /\ \E o \in BadOthers :
    LET r == update(_items, _key_indices, o, <<>>)
    IN  /\ Len(r.items) <= MaxLen
        /\ _items' = r.items
        /\ _key_indices' = r.key_indices
        /\ ret' = r.ret
        /\ call' = Call("update", NoKey, NoValue, _NO_DEFAULT, o, <<>>)
        /\ pre' = Container
        /\ adds' = NotOnlyAdds
        /\ filled' = (filled \/ r.items # <<>>)
        /\ UNCHANGED iter
        /\ UNCHANGED view

\* the calls of Next, and bulk calls whose input is malformed
NextBad ==
  \/ Next
  \/ ExtendBad
  \/ MergeBad
  \/ UpdateBad

SpecBad == Init /\ [][NextBad]_vars

\* it = iter(md), iter(md.keys()), iter(md.items()) or iter(md.values())
IterBegin ==
  \E kind \in IterKinds :
    /\ Idle
    /\ iter = NoIter
    /\ iter' = new_iter(kind, _items)
    /\ UNCHANGED <<_items, _key_indices, call, pre, ret, adds, filled>>
    /\ UNCHANGED view

\* next(it)
IterStep ==
  LET n == next(iter, _items, _key_indices)
  IN  /\ Idle
      /\ iter.status \in {"created", "running"}
      /\ iter' = n.iter
      /\ ret' = n.ret
      /\ call' = Call("next", NoKey, NoValue, _NO_DEFAULT, <<>>, <<>>)
      /\ pre' = Container
      /\ adds' = NotOnlyAdds
      /\ UNCHANGED <<_items, _key_indices, filled>>
      /\ UNCHANGED view

\* the calls that change the container, interleaved with the steps of one
\* iterator
NextIter ==
  \/ IterBegin
  \/ IterStep
  \/ Add
  \/ SetItem
  \/ PopOne
  \/ PopAll
  \/ Return

SpecIter == Init /\ [][NextIter]_vars

\* view = md.keys(), md.values() or md.items()
ViewTake ==
  \E kind \in IterKinds :
    /\ Idle
    /\ view' = MultiMappingView___init__(kind, _items)
    /\ UNCHANGED <<_items, _key_indices, call, pre, ret, adds, filled, iter>>

\* list(view), also right after a list(view) whose result is still at hand
ViewList ==
  /\ Idle \/ call.op = "list(view)"
  /\ view # NoView
  /\ ret' = List(MultiMappingView___iter__(view, _items, _key_indices))
  /\ call' = Call("list(view)", NoKey, NoValue, _NO_DEFAULT, <<>>, <<>>)
  /\ pre' = Container
  /\ adds' = NotOnlyAdds
  /\ UNCHANGED <<_items, _key_indices, filled, iter, view>>

\* len(view)
ViewLen ==
  /\ Idle
  /\ view # NoView
  /\ ret' = Value(MultiMappingView___len__(view, _items))
  /\ call' = Call("len(view)", NoKey, NoValue, _NO_DEFAULT, <<>>, <<>>)
  /\ pre' = Container
  /\ adds' = NotOnlyAdds
  /\ UNCHANGED <<_items, _key_indices, filled, iter, view>>

\* calls that change the container, interleaved with the uses of one view
NextView ==
  \/ ViewTake
  \/ ViewList
  \/ ViewLen
  \/ Add
  \/ SetItem
  \/ PopOne
  \/ Clear
  \/ Return

SpecView == Init /\ [][NextView]_vars

----------------------------------------------------------------------------
(* What the Entry Log says, read off the log alone *)

\* the keys that have at least one entry in the log
KeysOf(its) == {its[i][1] : i \in 1..Len(its)}

\* the entries whose key is not k, in log order
Without(its, k) == SelectSeq(its, LAMBDA e : e[1] # k)

\* the values of the entries with key k, in log order
RECURSIVE ValuesOf(_, _)
ValuesOf(its, k) ==
  IF its = <<>> THEN <<>>
  ELSE (IF Head(its)[1] = k THEN <<Head(its)[2]>> ELSE <<>>)
         \o ValuesOf(Tail(its), k)

\* the slot (1-based) of the first entry with key k
FirstSlot(its, k) ==
  CHOOSE p \in 1..Len(its) :
    its[p][1] = k /\ \A q \in 1..(p - 1) : its[q][1] # k

\* the log without its slot p
RemoveSlot(its, p) == SubSeq(its, 1, p - 1) \o SubSeq(its, p + 1, Len(its))

\* the positions (0-based) a position list holds
PositionsIn(l) == {l[j] : j \in 1..Len(l)}

\* a call that ran to its end without raising is being observed
Raised(r) == r[1] \in {"KeyError", "ValueError", "IndexError", "TypeError"}

Returned(op) == call.op = op /\ ~Raised(ret)

----------------------------------------------------------------------------
(* C1..C10 *)

\* C1: once any public call has returned, _key_indices is exactly the
\* grouping of _items by key: position p is in the list of key k iff
\* _items[p] has key k, every position 0..len-1 is in exactly one list
\* exactly once, and every list is ascending.
C1_IndexIsGroupingOfLog ==
  /\ \A p \in 1..Len(_items) : _items[p] # NoneItem
  /\ \A k \in DOMAIN _key_indices :
       /\ \A p \in 0..(Len(_items) - 1) :
            (p \in PositionsIn(_key_indices[k])) <=> (_items[p + 1][1] = k)
       /\ \A i, j \in 1..Len(_key_indices[k]) :
            i < j => _key_indices[k][i] < _key_indices[k][j]
  /\ \A p \in 0..(Len(_items) - 1) :
       Cardinality({kj \in {<<k, j>> : k \in DOMAIN _key_indices, j \in 1..MaxLen} :
                      /\ kj[2] <= Len(_key_indices[kj[1]])
                      /\ _key_indices[kj[1]][kj[2]] = p}) = 1
  /\ \A k \in DOMAIN _key_indices :
       PositionsIn(_key_indices[k]) \subseteq 0..(Len(_items) - 1)

\* a collapsing md[k] = v has just rebuilt the index of a log that shrank
\* from three entries to two entries of two keys
C1_Witness ==
  /\ Returned("__setitem__")
  /\ Len(pre.items) = 3
  /\ Len(_items) = 2
  /\ Cardinality(DOMAIN _key_indices) = 2

\* C2: after md[k] = v on a container where k had entries, the single entry
\* of k is (k, v), it has as many other entries before it as k's first prior
\* occurrence had, and the other keys' entries are unchanged in value and
\* order; where k had no entry, (k, v) is appended and nothing else changes.
C2_SetItemCollapses ==
  Returned("__setitem__") =>
    LET k == call.key
        v == call.value
        old == pre.items
    IN  IF k \in KeysOf(old)
        THEN /\ ValuesOf(_items, k) = <<v>>
             /\ Without(_items, k) = Without(old, k)
             /\ FirstSlot(_items, k) - 1
                  = Len(Without(SubSeq(old, 1, FirstSlot(old, k)), k))
        ELSE _items = Append(old, <<k, v>>)

\* md[k] = v has replaced k's first entry, which was not the first entry of
\* the log, and removed a later entry of k
C2_Witness ==
  /\ Returned("__setitem__")
  /\ call.key \in KeysOf(pre.items)
  /\ Len(ValuesOf(pre.items, call.key)) = 2
  /\ FirstSlot(pre.items, call.key) = 2
  /\ pre.items[2][2] # call.value

\* C3: from an empty container, after any sequence of add() calls
\* list(items()) is the sequence of pairs added, in call order; each add()
\* appends its pair at the end, raises len by one and leaves every existing
\* entry as it was.
C3_AddPreservesOrder ==
  /\ adds.only => items(_items, _key_indices) = adds.pairs
  /\ Returned("add") =>
       /\ _items = Append(pre.items, <<call.key, call.value>>)
       /\ __len__(_items) = __len__(pre.items) + 1

\* three add() calls on an empty container, the third repeating the key of
\* the first
C3_Witness ==
  /\ Returned("add")
  /\ adds.only
  /\ Len(adds.pairs) = 3
  /\ adds.pairs[1][1] = adds.pairs[3][1]
  /\ adds.pairs[1][1] # adds.pairs[2][1]
  /\ adds.pairs[1][2] # adds.pairs[3][2]

\* C4: for every key k that is present, getall(k) is the list of the values
\* of exactly the entries with key k in log order, so it is as long as k has
\* occurrences; len(container) is the number of entries counting every
\* occurrence, which is the sum over the keys of their occurrences.
RECURSIVE SumOccurrences(_, _)
SumOccurrences(its, ks) ==
  IF ks = {} THEN 0
  ELSE LET k == CHOOSE x \in ks : TRUE
       IN  Len(ValuesOf(its, k)) + SumOccurrences(its, ks \ {k})

C4_Multiplicity ==
  /\ \A k \in KeysOf(_items) :
       /\ getall(_items, _key_indices, k, _NO_DEFAULT).ret
            = List(ValuesOf(_items, k))
       /\ Len(getall(_items, _key_indices, k, _NO_DEFAULT).ret[2])
            = Cardinality({p \in 1..Len(_items) : _items[p][1] = k})
  /\ __len__(_items) = SumOccurrences(_items, Keys)

\* a log of three entries in which one key occurs twice, with different
\* values, around an entry of another key
C4_Witness ==
  /\ Len(_items) = 3
  /\ _items[1][1] = _items[3][1]
  /\ _items[1][1] # _items[2][1]
  /\ _items[1][2] # _items[3][2]

\* C5: where k has m >= 1 entries, popall(k) returns k's m values in log
\* order, removes those m entries and leaves the other keys' entries with
\* their values and order; afterwards k is not in the container and len is
\* m less.
C5_PopAll ==
  (Returned("popall") /\ call.key \in KeysOf(pre.items)) =>
    LET k == call.key
        m == Len(ValuesOf(pre.items, k))
    IN  /\ ret = List(ValuesOf(pre.items, k))
        /\ _items = Without(pre.items, k)
        /\ ~__contains__(_items, _key_indices, k)
        /\ __len__(_items) = __len__(pre.items) - m

\* popall(k) has removed both entries of k from around an entry of another
\* key
C5_Witness ==
  /\ Returned("popall")
  /\ Len(pre.items) = 3
  /\ pre.items[1][1] = call.key
  /\ pre.items[3][1] = call.key
  /\ pre.items[2][1] # call.key
  /\ pre.items[1][2] # pre.items[3][2]

\* C6: where k is present, popone(k) and pop(k) return the value of k's
\* first entry and remove exactly that entry: len is one less, the later
\* entries of k and all other entries keep their values and order, and
\* getone(k) afterwards is what was k's second value if it had one; on the
\* pop() fast path (the first occurrence is the last entry) as on the
\* rebuild path.
C6_PopOneRemovesFirst ==
  ((Returned("popone") \/ Returned("pop")) /\ call.key \in KeysOf(pre.items)) =>
    LET k == call.key
        p == FirstSlot(pre.items, k)
        vs == ValuesOf(pre.items, k)
    IN  /\ ret = Value(pre.items[p][2])
        /\ _items = RemoveSlot(pre.items, p)
        /\ __len__(_items) = __len__(pre.items) - 1
        /\ Len(vs) >= 2 =>
             getone(_items, _key_indices, k, _NO_DEFAULT).ret = Value(vs[2])

\* popone(k) took the rebuild path: k's first entry led the log, a second
\* entry of k with another value came after an entry of another key
C6_Witness ==
  /\ Returned("popone")
  /\ Len(pre.items) = 3
  /\ pre.items[1][1] = call.key
  /\ pre.items[2][1] # call.key
  /\ pre.items[3][1] = call.key
  /\ pre.items[1][2] # pre.items[3][2]

\* pop(k) took the fast path: k's only entry was the last entry of a log
\* that held other entries
C6_WitnessFastPath ==
  /\ Returned("pop")
  /\ Len(pre.items) = 3
  /\ pre.items[3][1] = call.key
  /\ FirstSlot(pre.items, call.key) = 3

\* C7: del md[k] for a present k removes every entry of k and leaves the
\* container exactly as popall(k) would, the other entries unchanged in
\* value and order; right afterwards k is not in the container and a second
\* del md[k] raises KeyError.
C7_DelItem ==
  (Returned("__delitem__") /\ call.key \in KeysOf(pre.items)) =>
    LET k == call.key
        byPopall == popall(pre.items, pre.key_indices, k, _NO_DEFAULT)
    IN  /\ _items = Without(pre.items, k)
        /\ _items = byPopall.items
        /\ _key_indices = byPopall.key_indices
        /\ ~__contains__(_items, _key_indices, k)
        /\ __delitem__(_items, _key_indices, k).ret = KeyError(k)

\* del md[k] has removed two entries of k from around an entry of another
\* key
C7_Witness ==
  /\ Returned("__delitem__")
  /\ Len(pre.items) = 3
  /\ pre.items[1][1] = call.key
  /\ pre.items[3][1] = call.key
  /\ pre.items[2][1] # call.key

\* C8: on a non-empty container popitem() removes and returns the last entry
\* of the log; it removes only the trailing position from that key's list,
\* dropping the key from the index if that was its last occurrence, and
\* leaves every other entry and every other key's list unchanged.
C8_PopItemFrame ==
  (call.op = "popitem" /\ pre.items # <<>>) =>
    LET n == Len(pre.items)
        k == pre.items[n][1]
        l == pre.key_indices[k]
    IN  /\ ret = Tuple(k, pre.items[n][2])
        /\ _items = SubSeq(pre.items, 1, n - 1)
        /\ IF Len(l) = 1
           THEN k \notin DOMAIN _key_indices
           ELSE /\ k \in DOMAIN _key_indices
                /\ _key_indices[k] = SubSeq(l, 1, Len(l) - 1)
        /\ DOMAIN _key_indices \ {k} = DOMAIN pre.key_indices \ {k}
        /\ \A o \in DOMAIN pre.key_indices \ {k} :
             _key_indices[o] = pre.key_indices[o]

\* popitem() has removed the second of two entries of a key, with an entry
\* of another key between them
C8_Witness ==
  /\ Returned("popitem")
  /\ Len(pre.items) = 3
  /\ pre.items[1][1] = pre.items[3][1]
  /\ pre.items[2][1] # pre.items[3][1]

\* popitem() has removed the only entry of a key
C8_WitnessLastOccurrence ==
  /\ Returned("popitem")
  /\ Len(pre.items) = 2
  /\ pre.items[1][1] # pre.items[2][1]

\* C9: after update(other): for each key that had entries before the call
\* and is in other, its old entries collapse to one entry where its first old
\* occurrence was, carrying the value of its first pair in other, and its
\* later pairs in other are appended in order; every pair of a key that was
\* not present before is appended in order; entries of keys not in other keep
\* value and order.  Presence is judged on the keys as the call began, so
\* getall(k) afterwards is the list of k's values in other, for every k in
\* other.
\* the old entries that stay: those of keys not in o, and the first entry of
\* each key in o with the value of that key's first pair in o
RECURSIVE UpdateKept(_, _, _)
UpdateKept(old, o, seen) ==
  IF old = <<>> THEN <<>>
  ELSE LET k == Head(old)[1]
       IN  IF k \notin KeysOf(o)
           THEN <<Head(old)>> \o UpdateKept(Tail(old), o, seen)
           ELSE IF k \in seen
           THEN UpdateKept(Tail(old), o, seen)
           ELSE <<<<k, o[FirstSlot(o, k)][2]>>>>
                  \o UpdateKept(Tail(old), o, seen \cup {k})

\* the pairs of o that are appended: all but the first pair of each key that
\* was present
UpdateAppended(old, o) ==
  LET idx == {i \in 1..Len(o) :
                ~(o[i][1] \in KeysOf(old) /\ i = FirstSlot(o, o[i][1]))}
      RECURSIVE Pick(_)
      Pick(i) == IF i > Len(o) THEN <<>>
                 ELSE (IF i \in idx THEN <<o[i]>> ELSE <<>>) \o Pick(i + 1)
  IN  Pick(1)

C9_Update ==
  Returned("update") =>
    LET old == pre.items
        o == call.other \o call.kwargs
    IN  /\ _items = UpdateKept(old, o, {}) \o UpdateAppended(old, o)
        /\ \A k \in KeysOf(o) :
             getall(_items, _key_indices, k, _NO_DEFAULT).ret
               = List(ValuesOf(o, k))
        /\ \A k \in KeysOf(old) \ KeysOf(o) :
             ValuesOf(_items, k) = ValuesOf(old, k)

\* update() got two pairs of a key that had two entries around an entry of
\* another key: the two old entries collapsed and the second pair was
\* appended after the other key's entry
C9_Witness ==
  /\ Returned("update")
  /\ Len(pre.items) = 3
  /\ Len(call.other \o call.kwargs) = 2
  /\ pre.items[1][1] = pre.items[3][1]
  /\ pre.items[2][1] # pre.items[1][1]
  /\ call.other[1][1] = pre.items[1][1]
  /\ (call.other \o call.kwargs)[2][1] = pre.items[1][1]
  /\ call.other[1][2] # (call.other \o call.kwargs)[2][2]
  /\ Len(_items) = 3

\* update() got a pair of a key with two old entries and then a pair of a
\* key that was not present
C9_WitnessMixed ==
  /\ Returned("update")
  /\ Len(call.other) = 2
  /\ Len(ValuesOf(pre.items, call.other[1][1])) = 2
  /\ call.other[2][1] \notin KeysOf(pre.items)

\* C10: merge(other) appends, in order, exactly the pairs of other whose key
\* was not present when the call began; presence is one snapshot taken at
\* the start, so several pairs sharing a new key are all appended and no
\* pair of a key that was present is added.  The entries that existed keep
\* their values and positions.
C10_Merge ==
  Returned("merge") =>
    LET old == pre.items
        o == call.other \o call.kwargs
    IN  /\ _items = old \o SelectSeq(o, LAMBDA e : e[1] \notin KeysOf(old))
        /\ SubSeq(_items, 1, Len(old)) = old
        /\ \A k \in KeysOf(old) : ValuesOf(_items, k) = ValuesOf(old, k)

\* merge() got two pairs sharing a key that was not present and appended
\* both
C10_Witness ==
  /\ Returned("merge")
  /\ pre.items # <<>>
  /\ Len(call.other \o call.kwargs) = 2
  /\ (call.other \o call.kwargs)[1][1] = (call.other \o call.kwargs)[2][1]
  /\ (call.other \o call.kwargs)[1][1] \notin KeysOf(pre.items)
  /\ Len(_items) = Len(pre.items) + 2

\* merge() got a pair of a key that was present and a pair of a key that was
\* not
C10_WitnessMixed ==
  /\ Returned("merge")
  /\ Len(call.other) = 2
  /\ call.other[1][1] \in KeysOf(pre.items)
  /\ call.other[2][1] \notin KeysOf(pre.items)

----------------------------------------------------------------------------
(* C11..C20 *)

\* C11: extend(other, **kwargs) appends every pair of other in order, then
\* the keyword pairs, whether or not the key is already present: the log
\* afterwards is the old log followed by exactly those pairs, len grows by
\* their number, and no existing entry is replaced or removed.
C11_Extend ==
  Returned("extend") =>
    LET o == call.other \o call.kwargs
    IN  /\ _items = pre.items \o o
        /\ __len__(_items) = __len__(pre.items) + Len(o)
        /\ SubSeq(_items, 1, Len(pre.items)) = pre.items

\* extend() got a pair of a key that was present and a keyword pair
C11_Witness ==
  /\ Returned("extend")
  /\ pre.items # <<>>
  /\ Len(call.other) = 1
  /\ Len(call.kwargs) = 1
  /\ call.other[1][1] \in KeysOf(pre.items)
  /\ call.other[1] # pre.items[Len(pre.items)]

\* the five calls that take a default
DefaultOps == {"getone", "getall", "popone", "pop", "popall"}

\* what the call op does on (its, ki) for key; default is _NO_DEFAULT where
\* the caller gives none
ByOp(op, its, ki, key, default) ==
  CASE op = "getone" -> getone(its, ki, key, default)
    [] op = "getall" -> getall(its, ki, key, default)
    [] op = "popone" -> popone(its, ki, key, default)
    [] op = "pop" -> pop(its, ki, key, default)
    [] op = "popall" -> popall(its, ki, key,
                               IF default = _NO_DEFAULT THEN None ELSE default)

\* C12: each of getone, getall, popone, pop and popall, called with a key
\* that has no entries and a default, returns that default and leaves log
\* and index unchanged; called with a key that is present it ignores the
\* default and does what it does without one.
C12_DefaultHonoured ==
  (call.op \in DefaultOps /\ call.default # _NO_DEFAULT) =>
    IF call.key \notin KeysOf(pre.items)
    THEN /\ ret = Value(call.default)
         /\ Container = pre
    ELSE LET plain == ByOp(call.op, pre.items, pre.key_indices, call.key,
                           _NO_DEFAULT)
         IN  /\ ret = plain.ret
             /\ _items = plain.items
             /\ _key_indices = plain.key_indices

\* C13: a default is honoured whatever its value, None included: on a key
\* with no entries popall(k, None) returns None, as getone(k, None) and
\* popone(k, None) do; the call raises only when no default is given at all.
C13_NoneDefaultHonoured ==
  (call.op \in {"getone", "popone", "popall"}
     /\ call.key \notin KeysOf(pre.items)) =>
    /\ call.default = None => ret = Value(None)
    /\ IsRaise(ret) => call.default = _NO_DEFAULT

C15_KeyErrorIffAbsent ==
  /\ \A k \in Keys :
       LET absent == k \notin KeysOf(_items)
       IN  /\ IsRaise(getone(_items, _key_indices, k, _NO_DEFAULT).ret) <=> absent
           /\ IsRaise(__getitem__(_items, _key_indices, k).ret) <=> absent
           /\ IsRaise(popone(_items, _key_indices, k, _NO_DEFAULT).ret) <=> absent
           /\ IsRaise(popall(_items, _key_indices, k, None).ret) <=> absent
           /\ IsRaise(__delitem__(_items, _key_indices, k).ret) <=> absent
  /\ (call.op \in {"getone", "__getitem__", "popone", "popall", "__delitem__"}
        /\ call.default = _NO_DEFAULT) =>
       /\ IsRaise(ret) <=> call.key \notin KeysOf(pre.items)
       /\ IsRaise(ret) => ret = KeyError(call.key)

\* del md[k] has just removed every entry of a key that was present, from a
\* container that still holds entries of another key
C15_Witness ==
  /\ Returned("__delitem__")
  /\ call.key \in KeysOf(pre.items)
  /\ Len(ValuesOf(pre.items, call.key)) = 2
  /\ _items # <<>>

\* popone(k) without a default has raised for a key whose entries were
\* removed before
C15_WitnessRaised ==
  /\ call.op = "popone"
  /\ call.default = _NO_DEFAULT
  /\ IsRaise(ret)
  /\ filled
  /\ _items = <<>>

\* the calls on one key, and popitem
SingleKeyOps ==
  {"getone", "__getitem__", "getall", "popone", "pop", "popall",
   "__delitem__", "popitem"}

\* C16: whenever getone, md[k], getall, popone, pop, popall or del md[k]
\* raises KeyError for an absent key, or popitem raises on an empty
\* container, log and index are exactly as they were before the call.
C16_FailureLeavesState ==
  (call.op \in SingleKeyOps /\ Raised(ret)) =>
    /\ _items = pre.items
    /\ _key_indices = pre.key_indices

\* popone(k) has raised on a container that holds three entries
C16_Witness ==
  /\ call.op = "popone"
  /\ IsRaise(ret)
  /\ Len(pre.items) = 3

\* the bulk calls
BulkOps == {"extend", "merge", "update"}

\* C17: if extend, merge or update fails partway through its input, for
\* instance at an element of other that is not a pair, then all of its
\* effects apply or none do: after the failure log and index are exactly as
\* they were before the call.
C17_BulkAllOrNothing ==
  (call.op \in BulkOps /\ Raised(ret)) =>
    /\ _items = pre.items
    /\ _key_indices = pre.key_indices

\* C18: popitem() on a container with no entries raises KeyError, on a
\* container that never held an entry as on one emptied by removals, and the
\* container is still empty and usable afterwards.
C18_PopItemEmpty ==
  (call.op = "popitem" /\ pre.items = <<>>) =>
    /\ ret = KeyError("popitem(): dictionary is empty")
    /\ _items = <<>>
    /\ _key_indices = EmptyDict
    /\ \A k \in Keys, v \in Values :
         add(_items, _key_indices, k, v)
           = R(<<<<k, v>>>>, DictSet(EmptyDict, k, <<0>>), Value(None))

\* popitem() has raised on a container emptied by removals
C18_Witness ==
  /\ call.op = "popitem"
  /\ Raised(ret)
  /\ filled

\* popitem() has raised on a container that never held an entry
C18_WitnessNeverFilled ==
  /\ call.op = "popitem"
  /\ Raised(ret)
  /\ ~filled

\* C19: for every key k, k in container is true exactly when getone(k) and
\* container[k] do not raise, which is exactly when the log holds an entry
\* of k; after add, after md[k] = v and after every removal.
C19_MembershipIsPresence ==
  \A k \in Keys :
    /\ __contains__(_items, _key_indices, k)
         <=> ~Raised(getone(_items, _key_indices, k, _NO_DEFAULT).ret)
    /\ __contains__(_items, _key_indices, k)
         <=> ~Raised(__getitem__(_items, _key_indices, k).ret)
    /\ __contains__(_items, _key_indices, k) <=> k \in KeysOf(_items)

\* popitem() has removed the only entry of a key and left an entry of the
\* other key
C19_Witness ==
  /\ Returned("popitem")
  /\ Len(pre.items) = 2
  /\ pre.items[1][1] # pre.items[2][1]
  /\ ~__contains__(_items, _key_indices, pre.items[2][1])
  /\ __contains__(_items, _key_indices, pre.items[1][1])

\* C20: clear() empties log and index from any state; called again, or on
\* a container that is already empty, it yields len 0 and no error, and
\* add() works as on a new container afterwards.
C20_Clear ==
  call.op = "clear" =>
    LET again == clear(_items, _key_indices)
    IN  /\ ~Raised(ret)
        /\ _items = <<>>
        /\ _key_indices = EmptyDict
        /\ __len__(_items) = 0
        /\ ~Raised(again.ret)
        /\ again.items = <<>>
        /\ again.key_indices = EmptyDict
        /\ \A k \in Keys, v \in Values :
             add(_items, _key_indices, k, v)
               = R(<<<<k, v>>>>, DictSet(EmptyDict, k, <<0>>), Value(None))

\* clear() has emptied a container of three entries of two keys
C20_Witness ==
  /\ Returned("clear")
  /\ Len(pre.items) = 3
  /\ Cardinality(DOMAIN pre.key_indices) = 2

\* clear() was called on a container that was already empty
C20_WitnessEmpty ==
  /\ Returned("clear")
  /\ pre.items = <<>>
  /\ filled

----------------------------------------------------------------------------
(* C21..C30 *)

\* C21: round trip.  For every reachable container, MultiDict(list(C.items()))
\* and the container read back from repr(C), which lists the log in order,
\* hold exactly the item sequence of C: same entries, same order, same
\* multiplicity.
C21_RoundTrip ==
  LET its == items(_items, _key_indices)
      again == __init__(its, <<>>)
      back == eval(__repr__(_items))
  IN  /\ items(again.items, again.key_indices) = its
      /\ again.items = _items
      /\ __repr__(_items)[3] = "["
      /\ items(back.items, back.key_indices) = its
      /\ back.items = _items
      /\ call.op = "__repr__" => ret = Str(__repr__(_items))

\* repr() was taken of a container that holds a key twice, with different
\* values, around an entry of the other key
C21_Witness ==
  /\ Returned("__repr__")
  /\ Len(_items) = 3
  /\ _items[1][1] = _items[3][1]
  /\ _items[1][2] # _items[3][2]
  /\ _items[2][1] # _items[1][1]

\* C22: MultiDict(source, **kwargs) holds the pairs of source in their order
\* followed by the keyword pairs in declaration order, duplicates retained: a
\* keyword whose key also occurs in source is one more entry and replaces
\* nothing, and getone gives the earliest value.
C22_Construction ==
  call.op = "__init__" =>
    LET given == call.other \o call.kwargs
    IN  /\ _items = given
        /\ items(_items, _key_indices) = given
        /\ __len__(_items) = Len(call.other) + Len(call.kwargs)
        /\ \A k \in KeysOf(given) :
             getone(_items, _key_indices, k, _NO_DEFAULT)
               = R(_items, _key_indices, Value(given[FirstSlot(given, k)][2]))

\* a container was built from a source and a keyword of a key that source
\* holds too, with another value
C22_Witness ==
  /\ call.op = "__init__"
  /\ Len(call.other) = 1
  /\ Len(call.kwargs) = 1
  /\ call.other[1][1] = call.kwargs[1][1]
  /\ call.other[1][2] # call.kwargs[1][2]

\* C23: in every reachable state keys() yields each key once per occurrence
\* in log order, values() the values in log order and items() exactly the
\* log; the three have the length len(md), and the i-th item is the i-th key
\* with the i-th value.
C23_Views ==
  LET ks == keys(_items, _key_indices)
      vs == values(_items, _key_indices)
      its == items(_items, _key_indices)
  IN  /\ its = _items
      /\ Len(ks) = __len__(_items)
      /\ Len(vs) = __len__(_items)
      /\ Len(its) = __len__(_items)
      /\ \A i \in 1..Len(_items) :
           /\ ks[i] = _items[i][1]
           /\ vs[i] = _items[i][2]
           /\ its[i] = <<ks[i], vs[i]>>
      /\ call.op = "keys" => ret = List(ks)
      /\ call.op = "values" => ret = List(vs)
      /\ call.op = "items" => ret = List(its)

\* the items of a container that holds a key twice, with different values,
\* have been listed
C23_Witness ==
  /\ Returned("items")
  /\ Len(_items) = 3
  /\ _items[1][1] = _items[3][1]
  /\ _items[1][2] # _items[3][2]
  /\ ret = List(_items)

\* the outcomes of next() that are not an error: an element, or the normal
\* end of the iteration
IsYieldOrEnd(r) == r = StopIteration \/ r[1] \in {"value", "tuple"}

\* C24: if the container is structurally mutated (__setitem__ collapsing
\* duplicates, popone, popall, __delitem__, update) between two steps of an
\* iteration over its keys, items or values, every later step yields an
\* element or ends normally, never raising, and the index invariant holds.
C24_IterationSurvivesMutation ==
  (call.op = "next" /\ iter.mutated) =>
    /\ IsYieldOrEnd(ret)
    /\ C1_IndexIsGroupingOfLog

\* C25: an iteration over the keys yields exactly the key sequence of the
\* log as it stood when the iteration began and then ends, also when add or
\* another mutation is called between its steps.
C25_IterationIsSnapshot ==
  iter.kind = "keys" =>
    /\ iter.exact
    /\ iter.status = "ended" => iter.expect = <<>>

\* C26: equality of MultiDict objects is object identity: md == other is
\* False for every object other than md itself, be it a MultiDict with the
\* identical entries (two empty containers included), a dict or a list of
\* pairs.
C26_EqualityIsIdentity ==
  call.op = "__eq__" => ret = Value(False)

\* C27: setdefault(k, d) with k present returns k's first value and leaves
\* the container unchanged, duplicates of k included; with k absent it
\* appends the one entry (k, d), returns d and leaves the state add(k, d)
\* leaves; a None default stores None.
C27_SetDefault ==
  call.op = "setdefault" =>
    LET k == call.key
        d == call.default
        byAdd == add(pre.items, pre.key_indices, k, d)
    IN  IF k \in KeysOf(pre.items)
        THEN /\ ret = Value(pre.items[FirstSlot(pre.items, k)][2])
             /\ Container = pre
             /\ __len__(_items) = __len__(pre.items)
        ELSE /\ ret = Value(d)
             /\ _items = Append(pre.items, <<k, d>>)
             /\ _items = byAdd.items
             /\ _key_indices = byAdd.key_indices

\* setdefault(k, d) found two entries of k, the first with a value other
\* than d
C27_Witness ==
  /\ Returned("setdefault")
  /\ Len(ValuesOf(pre.items, call.key)) = 2
  /\ ret # Value(call.default)

\* setdefault(k, None) found no entry of k in a container that holds entries
C27_WitnessAbsent ==
  /\ Returned("setdefault")
  /\ call.key \notin KeysOf(pre.items)
  /\ pre.items # <<>>
  /\ call.default = None
  /\ _items[Len(_items)] = <<call.key, None>>

\* the state ListMultiDict methods leave and the outcome they have, next to
\* the MultiDict call being observed; ref is what the reference did
SameObservations(ref) ==
  /\ Raised(ref.ret) <=> Raised(ret)
  /\ Raised(ref.ret) => ref.ret = ret
  /\ ListMultiDict___len__(ref.items) = __len__(_items)
  /\ ListMultiDict___iter__(ref.items) = keys(_items, _key_indices)
  /\ ListMultiDict_values(ref.items) = values(_items, _key_indices)
  /\ ListMultiDict_items(ref.items) = items(_items, _key_indices)
  /\ \A k \in Keys :
       ListMultiDict___getitem__(ref.items, k).ret
         = __getitem__(_items, _key_indices, k).ret

\* the calls ListMultiDict defines that change the container
ReferenceOps == {"add", "__setitem__", "__delitem__"}

\* what the reference does in the call being observed, from the list that
\* the two held in common before it
ReferenceStep ==
  IF call.op = "add"
  THEN ListMultiDict_add(ListMultiDict_items(pre.items), call.key, call.value)
  ELSE IF call.op = "__setitem__"
  THEN ListMultiDict___setitem__(ListMultiDict_items(pre.items), call.key,
                                 call.value)
  ELSE ListMultiDict___delitem__(ListMultiDict_items(pre.items), call.key)

\* C28: MultiDict is observationally equivalent to ListMultiDict: for every
\* sequence of construction, add, __setitem__ and __delitem__ applied to
\* both, they report the same len, the same key, value and item sequences
\* and the same md[k], and they raise in exactly the same calls.
C28_RefinesListMultiDict ==
  /\ call.op = "__init__" =>
       SameObservations(ListMultiDict(call.other, call.kwargs))
  /\ call.op \in ReferenceOps => SameObservations(ReferenceStep)

\* the methods of ListMultiDict, run on an object whose construction is
\* taken for granted, observe the same as MultiDict
C28_MethodsAgree ==
  /\ call.op = "__init__" =>
       SameObservations(ListMultiDict___init__(call.other, call.kwargs))
  /\ call.op \in ReferenceOps => SameObservations(ReferenceStep)

\* the calls that take entries out of the container
RemovalOps ==
  {"popone", "pop", "popitem", "popall", "__delitem__", "__setitem__",
   "update"}

\* C29: in every reachable state every key of the index has a non-empty
\* position list: when popone, popitem, popall, __delitem__, __setitem__ or
\* update takes the last entry of a key away, the key leaves the index.
C29_NoEmptyPositionList ==
  /\ \A k \in DOMAIN _key_indices : _key_indices[k] # <<>>
  /\ call.op \in RemovalOps =>
       \A k \in KeysOf(pre.items) \ KeysOf(_items) :
         k \notin DOMAIN _key_indices

\* popone(k) has taken the only entry of k, the last of the log, from
\* behind an entry of the other key
C29_Witness ==
  /\ Returned("popone")
  /\ Len(pre.items) = 2
  /\ pre.items[2][1] = call.key
  /\ pre.items[1][1] # call.key
  /\ DOMAIN _key_indices = {pre.items[1][1]}

\* popitem() has taken the only entry of a key
C29_WitnessPopItem ==
  /\ Returned("popitem")
  /\ Len(pre.items) = 2
  /\ pre.items[1][1] # pre.items[2][1]
  /\ DOMAIN _key_indices = {pre.items[1][1]}

\* C30: after md[k] = v exactly one entry of k exists, md[k] is v and
\* getall(k) is [v]; len grows by 1 if k was absent and shrinks by m - 1 if
\* k had m >= 1 entries.
C30_SetItemCounts ==
  call.op = "__setitem__" =>
    LET k == call.key
        v == call.value
        m == Len(ValuesOf(pre.items, k))
    IN  /\ Len(ValuesOf(_items, k)) = 1
        /\ Cardinality({i \in 1..Len(_items) : _items[i][1] = k}) = 1
        /\ __getitem__(_items, _key_indices, k).ret = Value(v)
        /\ getall(_items, _key_indices, k, _NO_DEFAULT).ret = List(<<v>>)
        /\ __len__(_items) = IF m = 0 THEN __len__(pre.items) + 1
                             ELSE __len__(pre.items) - (m - 1)

\* md[k] = v has collapsed three entries of k into one
C30_Witness ==
  /\ Returned("__setitem__")
  /\ Len(ValuesOf(pre.items, call.key)) = 3
  /\ __len__(_items) = 1

\* md[k] = v has appended to a container that held only the other key
C30_WitnessAbsent ==
  /\ Returned("__setitem__")
  /\ pre.items # <<>>
  /\ call.key \notin KeysOf(pre.items)
  /\ __len__(_items) = __len__(pre.items) + 1

----------------------------------------------------------------------------
(* C31..C38 *)

\* C31: from the same state and on the same input, MultiDict.update, which
\* marks duplicates and compacts once at the end, ends with the Entry Log
\* and the Position Index that the MutableMultiMapping default update (one
\* __setitem__ or add per pair) ends with.
C31_UpdateRefinesDefault ==
  call.op = "update" =>
    LET d == MutableMultiMapping_update(pre.items, pre.key_indices,
                                        call.other, call.kwargs)
    IN  /\ d.ret = ret
        /\ d.items = _items
        /\ d.key_indices = _key_indices

\* update() got two pairs of one key that had two entries: the first pair
\* marks the duplicate, the second is appended while the marker is in place
C31_Witness ==
  /\ Returned("update")
  /\ Len(call.other \o call.kwargs) = 2
  /\ (call.other \o call.kwargs)[1][1] = (call.other \o call.kwargs)[2][1]
  /\ Len(ValuesOf(pre.items, (call.other \o call.kwargs)[1][1])) = 2
  /\ Len(pre.items) = 3

\* update() got a pair of a key with two entries and a pair of a new key
C31_WitnessMixed ==
  /\ Returned("update")
  /\ Len(call.other \o call.kwargs) = 2
  /\ \E i, j \in 1..2 :
       /\ Len(ValuesOf(pre.items, (call.other \o call.kwargs)[i][1])) = 2
       /\ (call.other \o call.kwargs)[j][1] \notin KeysOf(pre.items)

\* C32 as stated: MultiDict.popall(k) and the MutableMultiMapping default
\* popall (popone once per occurrence) hand back the same thing and end in
\* the same log and index: the values of k for a key that is present, a
\* KeyError for an absent key and no default, the default for an absent key
\* and a default.
C32_PopAllRefinesDefault ==
  call.op = "popall" =>
    LET d == MutableMultiMapping_popall(pre.items, pre.key_indices,
                                        call.key, call.default)
    IN  /\ d.ret = ret
        /\ d.items = _items
        /\ d.key_indices = _key_indices

\* the two popall agree whenever the key is present or the default is not
\* None
C32_AgreeButForNone ==
  (call.op = "popall"
     /\ (call.key \in KeysOf(pre.items) \/ call.default # None)) =>
    LET d == MutableMultiMapping_popall(pre.items, pre.key_indices,
                                        call.key, call.default)
    IN  /\ d.ret = ret
        /\ d.items = _items
        /\ d.key_indices = _key_indices

\* C33 as stated: the MutableMultiMapping default popitem and
\* MultiDict.popitem both remove and return the last entry of the log, and
\* both raise KeyError on an empty container.
C33_PopItemRefinesDefault ==
  call.op = "popitem" =>
    LET d == MutableMultiMapping_popitem(pre.items, pre.key_indices)
    IN  IF pre.items = <<>>
        THEN ret[1] = "KeyError" /\ d.ret[1] = "KeyError"
        ELSE /\ ret = Tuple(pre.items[Len(pre.items)][1],
                            pre.items[Len(pre.items)][2])
             /\ _items = ListPop(pre.items)
             /\ d.ret = ret
             /\ d.items = _items
             /\ d.key_indices = _key_indices

\* the default popitem removes and returns the first entry of the log
C33_DefaultTakesFirst ==
  (call.op = "popitem" /\ pre.items # <<>>) =>
    LET d == MutableMultiMapping_popitem(pre.items, pre.key_indices)
    IN  /\ d.ret = Tuple(pre.items[1][1], pre.items[1][2])
        /\ d.items = Tail(pre.items)

\* C34: a view reads the container when it is used, not when it was taken:
\* list(view) yields the keys, values or items the log holds as the
\* iteration begins and leaves the container alone, len(view) is the length
\* of the log, and a second list(view) with no call in between yields what
\* the first did.
C34_ViewsAreLive ==
  [][/\ call'.op = "list(view)" =>
          /\ ret' = List(IF view.kind = "keys"
                         THEN [i \in 1..Len(_items) |-> _items[i][1]]
                         ELSE IF view.kind = "values"
                         THEN [i \in 1..Len(_items) |-> _items[i][2]]
                         ELSE _items)
          /\ UNCHANGED <<_items, _key_indices, view>>
     /\ call'.op = "len(view)" =>
          /\ ret' = Value(Len(_items))
          /\ UNCHANGED <<_items, _key_indices, view>>
     /\ (call.op = "list(view)" /\ call'.op = "list(view)") => ret' = ret
    ]_vars

\* list(view) ran on a container that has grown since the view was taken
C34_Witness ==
  /\ call.op = "list(view)"
  /\ view.taken_len < Len(_items)
  /\ Len(ret[2]) = Len(_items)

\* len(view) was taken after the container shrank
C34_WitnessLen ==
  /\ call.op = "len(view)"
  /\ view.taken_len > Len(_items)

\* C35: every element of the Entry Log is a (key, value) pair, none a
\* removal marker, whichever call wrote markers on its way; and a removal
\* takes no entry of another key with it, a value of None included.
C35_NoMarkerLeft ==
  /\ \A i \in DOMAIN _items : _items[i] # NoneItem /\ IsPair(_items[i])
  /\ (call.op \in {"__setitem__", "popone", "pop", "popall", "__delitem__"}
        /\ ~Raised(ret)) =>
       Without(_items, call.key) = Without(pre.items, call.key)
  /\ Returned("update") =>
       LET given == KeysOf(call.other \o call.kwargs)
       IN  SelectSeq(_items, LAMBDA e : e[1] \notin given)
             = SelectSeq(pre.items, LAMBDA e : e[1] \notin given)

\* a removal compacted the log, and an entry of another key whose value is
\* None is still there
C35_Witness ==
  /\ \/ Returned("__setitem__")
     \/ Returned("popone")
     \/ Returned("popall")
  /\ Len(pre.items) = 3
  /\ Len(_items) < Len(pre.items)
  /\ pre.items[1][1] = call.key
  /\ \E i \in DOMAIN _items :
       _items[i][1] # call.key /\ _items[i][2] = None

\* update() marked a duplicate and compacted, and an entry of a key it was
\* not given, with the value None, is still there
C35_WitnessUpdate ==
  /\ Returned("update")
  /\ Len(_items) < Len(pre.items)
  /\ \E i \in DOMAIN _items :
       /\ _items[i][1] \notin KeysOf(call.other \o call.kwargs)
       /\ _items[i][2] = None

\* C36: add(k, v) followed at once by popitem() returns (k, v) and leaves
\* the log and the index as they were before the add, in whatever state the
\* container is between two calls; seen from a popitem that returned,
\* adding back what it returned restores what it found.
C36_AddThenPopItem ==
  /\ Idle =>
       \A k \in Keys, v \in Values :
         LET a == add(_items, _key_indices, k, v)
             p == popitem(a.items, a.key_indices)
         IN  /\ p.ret = Tuple(k, v)
             /\ p.items = _items
             /\ p.key_indices = _key_indices
  /\ Returned("popitem") =>
       LET a == add(_items, _key_indices, ret[2], ret[3])
       IN  a.items = pre.items /\ a.key_indices = pre.key_indices

\* popitem() took the only entry of its key out of a log that holds others
C36_Witness ==
  /\ Returned("popitem")
  /\ ret[2] \notin KeysOf(_items)
  /\ ret[2] \notin DOMAIN _key_indices
  /\ _items # <<>>

\* C37: (k, v) in md.items() is true exactly when some entry of the log is
\* (k, v), and false, not an error, when k has no entry; v in md.values()
\* exactly when some entry has the value v; k in md.keys() exactly when k
\* has an entry.  Stated of the container as it is between two calls.
C37_ViewMembership ==
  Idle => \A k \in Keys, v \in Values :
    /\ ItemsView___contains__(_items, _key_indices, <<k, v>>)
         <=> \E i \in DOMAIN _items : _items[i] = <<k, v>>
    /\ ValuesView___contains__(_items, _key_indices, v)
         <=> \E i \in DOMAIN _items : _items[i][2] = v
    /\ KeysView___contains__(_items, _key_indices, k)
         <=> \E i \in DOMAIN _items : _items[i][1] = k

\* a key has two entries with different values, so that a pair is found by
\* its second value only, and the other key has none
C37_Witness ==
  \E k \in Keys :
    /\ Idle
    /\ Len(ValuesOf(_items, k)) = 2
    /\ ValuesOf(_items, k)[1] # ValuesOf(_items, k)[2]
    /\ Keys \ KeysOf(_items) # {}

\* C38: _with_default_handling and the wrapper of withdefault hand back what
\* the operation returned when it returned, the default when it raised
\* KeyError and a default was given, and the same KeyError when none was
\* given; so do getone, popone and pop, which are built on the helper.
C38_DefaultWrappers ==
  /\ Idle => \A key \in Keys, default \in Defaults :
       LET op == _popone(_items, _key_indices, key)
           h == _with_default_handling(op, default)
           w == withdefault(op, default)
           Right(x) ==
             IF ~IsRaise(op.ret) THEN x = op
             ELSE /\ x.items = op.items
                  /\ x.key_indices = op.key_indices
                  /\ x.ret = IF default # _NO_DEFAULT THEN Value(default)
                             ELSE KeyError(key)
       IN  Right(h) /\ Right(w)
  /\ call.op \in {"getone", "popone", "pop"} =>
       IF call.key \in KeysOf(pre.items)
       THEN ret = Value(ValuesOf(pre.items, call.key)[1])
       ELSE IF call.default # _NO_DEFAULT THEN ret = Value(call.default)
       ELSE ret = KeyError(call.key)

\* popone(key, None) on a container without the key returned None
C38_Witness ==
  /\ call.op = "popone"
  /\ call.key \notin KeysOf(pre.items)
  /\ call.default = None
  /\ ret = Value(None)
  /\ pre.items # <<>>

\* popone(key, default) returned the value it removed, not the default
C38_WitnessSuccess ==
  /\ call.op = "popone"
  /\ call.key \in KeysOf(pre.items)
  /\ call.default \notin {_NO_DEFAULT, ValuesOf(pre.items, call.key)[1]}
  /\ ret = Value(ValuesOf(pre.items, call.key)[1])

\* popone(key) on a container without the key raised KeyError(key)
C38_WitnessRaised ==
  /\ call.op = "popone"
  /\ call.key \notin KeysOf(pre.items)
  /\ call.default = _NO_DEFAULT
  /\ ret = KeyError(call.key)

====
